---- MODULE Spec2Model ----
(***************************************************************************)
(* Motion indexer: the segment detector (detector.py), the catalog scanner *)
(* (scanner.py), the SQLite result store (database.py), the scan           *)
(* orchestrator and its worker pool (processor.py) and the run-state flag  *)
(* of the web viewer (viewer.py).                                          *)
(*                                                                         *)
(* Ten specifications share the module, one per part of the program:       *)
(*   SpecDetector    MotionDetector.analyze_video on one video             *)
(*   SpecBrightness  the same on short videos, dark and normal             *)
(*   SpecPeak        the same on short videos with frames of several areas *)
(*   Spec            MotionProcessor.run_scan against the result store     *)
(*   SpecValidation  MotionProcessor.run_validation_scan                   *)
(*   SpecViewer      api_rebuild / api_validate / auto_scan_loop           *)
(*   SpecScanner     VideoScanner.scan_all_videos, file by file            *)
(*   SpecStatRun     run_scan while stat() fails for some files            *)
(*   SpecViewerLive  SpecViewer with every started run ending              *)
(*   SpecStore       DatabaseManager on its own, under any caller          *)
(***************************************************************************)
EXTENDS Integers, Sequences, FiniteSets, TLC

VARIABLES
    \* ---- detector.py: MotionDetector.analyze_video ----
    end_grace_frames,   \* config["end_grace_frames"]
    min_segment_duration, \* config["min_segment_duration"] * fps, in frames
    sample_every,       \* config["sample_every_n_frames"]
    brightness,         \* result of _calculate_brightness
    areas,              \* max_area of every loop iteration so far (0 when the frame is not sampled)
    frame_idx,          \* loop counter of analyze_video
    current_segment,    \* the open segment, or None
    segments,           \* the segments emitted so far
    det_pc,             \* "loop" while cap.read() delivers frames, "done" after the flush
    \* ---- the video tree and the frame analyzer ----
    root,               \* VideoScanner.root_dir: where the video tree is mounted
    disk,               \* the video files under root, by their path relative to root
    analysis,           \* per file, what MotionDetector.analyze_video does with it:
                        \* it raises, or returns n segments
    \* ---- database.py: the SQLite file ----
    videos,             \* rows of table videos
    motion_segments,    \* rows of table motion_segments
    \* ---- processor.py: MotionProcessor.run_scan ----
    now,                \* number of runs started; stands for datetime.utcnow()
    run_pc,             \* where run_scan is: "idle" when no run is active
    workers,            \* config["parallel_workers"] of the run
    all_videos,         \* run_scan.all_videos
    videos_to_process,  \* run_scan.videos_to_process
    task_queue,         \* videos not yet handed to process_video_worker
    busy,               \* per pool worker, the video it is analyzing, or None
    results,            \* results produced and not yet saved, oldest first
    \* ---- history of the current run ----
    pool_created,       \* a multiprocessing.Pool was constructed
    analyzed,           \* the videos process_video_worker was called with, in order
    persisted,          \* the results _save_results has saved completely
    handled,            \* the results _save_results was called with and has returned or raised on
    store_before,       \* the store when the run started (SpecStore: before the last call)
    reconciled,         \* cleanup_deleted_videos has run
    last_run,           \* the run before: its catalog, outstanding videos, saved videos, exit
    exit,               \* how the last run ended
    progress_callback,  \* MotionProcessor.progress_callback is set
    progress,           \* the events the callback has received in the current run
    worker_detector,    \* per pool worker, the global _worker_detector of its process
    constructed,        \* MotionDetector instances constructed for the current run
    \* ---- viewer.py: the run-state flag and the threads that use it ----
    rebuild_running,    \* rebuild_status['running']
    handler,            \* per request thread: the request it serves and where it is
    auto_pc,            \* where auto_scan_loop is
    active_runs,        \* the threads inside MotionProcessor.run_scan / run_validation_scan
    \* ---- processor.py: MotionProcessor.run_validation_scan ----
    reanalysis,         \* per file, what analyze_video does with it under the validation model
    rare,               \* the files whose stored segments carry a label of rare_objects
    val_pc,             \* where run_validation_scan is: "idle" before, "loop", "done", "crashed"
    val_queue,          \* the rows of videos_to_validate not yet visited
    validated,          \* the validation marks: hash and model
    val_log,            \* history: per visited row its hash, what became of it, the segments
                        \* stored before and the segments of the re-analysis
    validation_model,   \* the validation_model argument of run_validation_scan
    \* ---- scanner.py: VideoScanner.scan_all_videos ----
    tree,               \* what rglob("*") finds under root: relative paths
    unreadable,         \* the entries whose stat() raises
    found,              \* the list _find_video_files returned
    scan_i,             \* how many entries of found the loop has visited
    scan_videos,        \* scan_all_videos.videos
    scan_pc             \* where scan_all_videos is: "idle", "loop", "done", "failed"

det_vars == <<end_grace_frames, min_segment_duration, sample_every, brightness,
              areas, frame_idx, current_segment, segments, det_pc>>

env_vars == <<root, disk, analysis>>

db_vars == <<videos, motion_segments>>

run_vars == <<now, run_pc, workers, all_videos, videos_to_process, task_queue,
              busy, results, pool_created, analyzed, persisted, handled,
              store_before, reconciled, last_run, exit, progress_callback,
              progress, worker_detector, constructed>>

view_vars == <<rebuild_running, handler, auto_pc, active_runs>>

val_vars == <<reanalysis, rare, val_pc, val_queue, validated, val_log, validation_model>>

scan_vars == <<tree, unreadable, found, scan_i, scan_videos, scan_pc>>

vars == <<det_vars, env_vars, db_vars, run_vars, view_vars, val_vars, scan_vars>>

None == [none |-> TRUE]

(***************************************************************************)
(* Bounds and input choices of the detector.                               *)
(***************************************************************************)
MaxFrames == 13                 \* longest video, in frames
GraceChoices == {5, 6, 7}       \* values of end_grace_frames tried
MinDurationChoices == {1, 3, 8} \* values of min_segment_duration * fps tried
SampleChoices == {1, 2}         \* values of sample_every_n_frames tried
BrightnessChoices == {80}       \* brightness estimates tried (80: the empty-sample fallback)

min_motion_area == 800          \* config["min_motion_area"]
MaxPreviewFrames == 5           \* previews kept per segment
DarkCutoff == 60                \* brightness below this is a dark video

\* The activity areas a sampled frame can show: still, and motion at the threshold.
AreaChoices == {0, min_motion_area}

Max(a, b) == IF a >= b THEN a ELSE b

(***************************************************************************)
(* detector.py: _get_adaptive_thresholds. int(x * 1.5) for x >= 0 is       *)
(* (3 * x) \div 2.                                                         *)
(***************************************************************************)
\* _get_adaptive_thresholds with brightness <= 60 for line 163.
GetAdaptiveMinAreaInclusive(b) ==
    IF b <= DarkCutoff THEN (3 * min_motion_area) \div 2 ELSE min_motion_area

GetAdaptiveMinArea(b) ==
    IF b < DarkCutoff THEN (3 * min_motion_area) \div 2 ELSE min_motion_area

(***************************************************************************)
(* detector.py: _finalize_segment. Times are in frames (time * fps), so    *)
(* duration < min_duration reads end - start < min_segment_duration.       *)
(* Returns the empty sequence for None, else the one segment.  saved is    *)
(* the subsequence of the preview candidates whose frame could be read     *)
(* back from the capture.                                                  *)
(***************************************************************************)
\* _finalize_segment without lines 182-183: every candidate is returned.
FinalizeSegmentNoFilter(segment_data, end_time, saved) ==
    << [start_time |-> segment_data.start_time,
        end_time |-> end_time,
        max_motion_area |-> segment_data.max_area,
        preview_frames |-> saved] >>

FinalizeSegment(segment_data, end_time, saved) ==
    IF end_time - segment_data.start_time < min_segment_duration
    THEN << >>
    ELSE << [start_time |-> segment_data.start_time,
             end_time |-> end_time,
             max_motion_area |-> segment_data.max_area,
             preview_frames |-> saved] >>

(***************************************************************************)
(* analyze_video, line 121: the test that ends the grace period, on the    *)
(* counter after its increment.                                            *)
(***************************************************************************)
GraceExpiredStrict(grace_counter, grace) == grace_counter > grace

GraceExpired(grace_counter, grace) == grace_counter >= grace

\* The subsequences of s: what the read-back of preview frames can keep.
RECURSIVE SubSeqs(_)
SubSeqs(s) ==
    IF s = << >> THEN { << >> }
    ELSE LET rest == SubSeqs(Tail(s))
         IN rest \cup { <<Head(s)>> \o r : r \in rest }

(***************************************************************************)
(* analyze_video, lines 100-120: what a sampled frame does to the open     *)
(* segment.                                                                *)
(***************************************************************************)
\* Lines 103-109 with the segment dated from the frame before the one that
\* opens it.
StartSegmentBackdated(frame, current_time, max_area) ==
    [start_frame |-> frame - 1,
     start_time |-> current_time - 1,
     max_area |-> max_area,
     preview_frames |-> <<frame>>,
     grace_counter |-> 0]

\* Lines 103-109: the frame opens a segment.
StartSegment(frame, current_time, max_area) ==
    [start_frame |-> frame,
     start_time |-> current_time,
     max_area |-> max_area,
     preview_frames |-> <<frame>>,
     grace_counter |-> 0]

\* Lines 111-116 without line 113: the counter keeps counting over frames
\* with motion.
ContinueSegmentNoReset(segment_data, frame, max_area) ==
    [segment_data EXCEPT
        !.max_area = Max(@, max_area),
        !.preview_frames = IF Len(@) < MaxPreviewFrames THEN Append(@, frame) ELSE @]

\* Lines 111-116 without the test of line 115: every frame with motion is
\* kept as a preview frame.
ContinueSegmentNoCap(segment_data, frame, max_area) ==
    [segment_data EXCEPT
        !.max_area = Max(@, max_area),
        !.grace_counter = 0,
        !.preview_frames = Append(@, frame)]

\* Lines 111-116 with max_area taken from the frame at hand instead of the
\* max() of line 112.
ContinueSegmentLatestArea(segment_data, frame, max_area) ==
    [segment_data EXCEPT
        !.max_area = max_area,
        !.grace_counter = 0,
        !.preview_frames = IF Len(@) < MaxPreviewFrames THEN Append(@, frame) ELSE @]

\* Lines 111-116: a frame with motion while a segment is open.
ContinueSegment(segment_data, frame, max_area) ==
    [segment_data EXCEPT
        !.max_area = Max(@, max_area),
        !.grace_counter = 0,
        !.preview_frames = IF Len(@) < MaxPreviewFrames THEN Append(@, frame) ELSE @]

\* Line 120: a frame without motion while a segment is open.
GraceTick(segment_data) == [segment_data EXCEPT !.grace_counter = @ + 1]

(***************************************************************************)
(* detector.py: analyze_video, lines 65-72: the state before the loop.     *)
(***************************************************************************)
DetInit ==
    /\ end_grace_frames \in GraceChoices
    /\ min_segment_duration \in MinDurationChoices
    /\ sample_every \in SampleChoices
    /\ brightness \in BrightnessChoices
    /\ areas = << >>
    /\ frame_idx = 0
    /\ current_segment = None
    /\ segments = << >>
    /\ det_pc = "loop"

DetConfigUnchanged ==
    UNCHANGED <<end_grace_frames, min_segment_duration, sample_every, brightness,
                env_vars, db_vars, run_vars, view_vars, val_vars, scan_vars>>

(***************************************************************************)
(* analyze_video, lines 75-81: cap.read() delivers a frame that is not     *)
(* sampled.                                                                *)
(***************************************************************************)
SkipFrame ==
    /\ det_pc = "loop"
    /\ frame_idx < MaxFrames
    /\ (frame_idx + 1) % sample_every # 0
    /\ frame_idx' = frame_idx + 1
    /\ areas' = Append(areas, 0)
    /\ UNCHANGED <<current_segment, segments, det_pc>>
    /\ DetConfigUnchanged

(***************************************************************************)
(* analyze_video, lines 75-126: one sampled frame whose largest contour    *)
(* has area max_area.                                                      *)
(***************************************************************************)
SampleFrame(max_area) ==
    /\ det_pc = "loop"
    /\ frame_idx < MaxFrames
    /\ (frame_idx + 1) % sample_every = 0
    /\ frame_idx' = frame_idx + 1
    /\ areas' = Append(areas, max_area)
    /\ LET has_motion == max_area >= GetAdaptiveMinArea(brightness)
           current_time == frame_idx + 1
       IN IF has_motion
          THEN /\ current_segment' =
                     IF current_segment = None
                     THEN StartSegment(frame_idx + 1, current_time, max_area)
                     ELSE ContinueSegment(current_segment, frame_idx + 1, max_area)
               /\ UNCHANGED segments
          ELSE IF current_segment # None
          THEN IF GraceExpired(GraceTick(current_segment).grace_counter, end_grace_frames)
               THEN /\ \E saved \in SubSeqs(current_segment.preview_frames) :
                          segments' = segments \o
                              FinalizeSegment(GraceTick(current_segment), current_time, saved)
                    /\ current_segment' = None
               ELSE /\ current_segment' = GraceTick(current_segment)
                    /\ UNCHANGED segments
          ELSE UNCHANGED <<current_segment, segments>>
    /\ UNCHANGED det_pc
    /\ DetConfigUnchanged

(***************************************************************************)
(* analyze_video, lines 76-77 and 128-134: cap.read() fails, the open      *)
(* segment is flushed with end time frame_idx / fps.                       *)
(***************************************************************************)
EndOfStream ==
    /\ det_pc = "loop"
    /\ det_pc' = "done"
    /\ IF current_segment # None
       THEN /\ \E saved \in SubSeqs(current_segment.preview_frames) :
                  segments' = segments \o
                      FinalizeSegment(current_segment, frame_idx, saved)
            /\ current_segment' = None
       ELSE UNCHANGED <<current_segment, segments>>
    /\ UNCHANGED <<areas, frame_idx>>
    /\ DetConfigUnchanged

(***************************************************************************)
(* The video tree.  A path is the pair <<mount point, path relative to     *)
(* it>>; str(path), which the store keeps, is that pair.                   *)
(***************************************************************************)
Roots == {"/volume1", "/volume2"}       \* mount points of the video tree
Files == {"cam/a.mp4", "cam/b.mp4"}     \* relative paths of the video files
MaxSegs == 1                            \* most segments analyze_video returns for a file
MaxRuns == 2                            \* runs started in one behaviour
WorkerChoices == {1, 2}                 \* values of parallel_workers tried

NULL == "NULL"
NULL_TIME == 0 - 1                      \* processed_at IS NULL

AbsPath(r, rel) == <<r, rel>>

\* Path.name: the last component of the path.
PathName(path) ==
    CASE path[2] = "cam/a.mp4" -> "a.mp4"
      [] path[2] = "cam/b.mp4" -> "b.mp4"

\* The dict handed to progress_callback.
ProgressEvent(total, processed, current_file, has_motion, n) ==
    [total |-> total, processed |-> processed, current_file |-> current_file,
     has_motion |-> has_motion, segments |-> n]

\* Path.relative_to(root_dir), for a path under root_dir.
RelativeTo(path, r) == path[2]

\* hashlib.sha256(...).hexdigest()[:16]: a digest of its argument and of
\* nothing else; distinct arguments are taken to give distinct digests.
Sha256Hex16(text) == <<"sha256", text>>

(***************************************************************************)
(* scanner.py: _generate_hash and scan_all_videos.  size and modified of a *)
(* VideoFile are copied into the store and never read back; they are left  *)
(* out.                                                                    *)
(***************************************************************************)
GenerateHash(video_path, r) == Sha256Hex16(RelativeTo(video_path, r))

\* scan_all_videos keeping a file whose stat() raises, as if the except
\* clause of lines 46-47 appended it without size and modification time.
StatableAll(on_disk, stat_fails) == on_disk

\* scan_all_videos, lines 36-47: of the video files found, those that get
\* into the list; a file whose stat() raises is logged and left out.
Statable(on_disk, stat_fails) == on_disk \ stat_fails

ScanAllVideos(r, on_disk) ==
    { [path |-> AbsPath(r, rel), hash |-> GenerateHash(AbsPath(r, rel), r)] :
        rel \in on_disk }

\* The orders in which rglob can deliver a set of files.
Orders(S) ==
    { s \in [1..Cardinality(S) -> S] : \A i, j \in DOMAIN s : i # j => s[i] # s[j] }

Range(s) == { s[i] : i \in DOMAIN s }

(***************************************************************************)
(* database.py.  A store is [videos, motion_segments].  Every connection   *)
(* runs PRAGMA foreign_keys = ON (line 71), so deleting a videos row       *)
(* deletes the motion_segments rows that reference it (line 52).           *)
(***************************************************************************)
Store(v, m) == [videos |-> v, motion_segments |-> m]

\* Deleting videos rows on a connection without PRAGMA foreign_keys = ON:
\* the motion_segments rows stay.
DeleteRowsNoCascade(db, rows) == Store(db.videos \ rows, db.motion_segments)

DeleteRows(db, rows) ==
    Store(db.videos \ rows,
          { s \in db.motion_segments :
              s.video_hash \notin { r.video_hash : r \in rows } })

\* is_processed without its WHERE video_hash = ?: any processed row answers
\* for every hash.
IsProcessedAnyHash(db, video_hash) ==
    \E r \in db.videos : r.processed_at # NULL_TIME

\* is_processed with AND error_message IS NULL added to its WHERE clause: a
\* row that records a failed analysis does not count as processed.
IsProcessedOnlySuccess(db, video_hash) ==
    \E r \in db.videos :
        /\ r.video_hash = video_hash
        /\ r.processed_at # NULL_TIME
        /\ r.error_message = NULL

\* is_processed, lines 82-89
IsProcessed(db, video_hash) ==
    \E r \in db.videos : r.video_hash = video_hash /\ r.processed_at # NULL_TIME

\* mark_processed, lines 99-112.  INSERT OR REPLACE first deletes the rows
\* that collide on the primary key video_hash or on the UNIQUE video_path.
\* mark_processed as a plain INSERT into a table without the PRIMARY KEY and
\* UNIQUE constraints: the new row is added to whatever is there.
MarkProcessedAppend(db, video_hash, video_path, processing_duration, has_motion, error_message, utcnow) ==
    [db EXCEPT !.videos = @ \cup
        { [video_hash |-> video_hash,
           video_path |-> video_path,
           processed_at |-> utcnow,
           processing_duration_sec |-> processing_duration,
           has_motion |-> has_motion,
           error_message |-> error_message] }]

\* mark_processed on a videos table without UNIQUE on video_path: INSERT OR
\* REPLACE deletes the row of the same video_hash only.
MarkProcessedHashOnly(db, video_hash, video_path, processing_duration, has_motion, error_message, utcnow) ==
    LET gone == DeleteRows(db, { r \in db.videos : r.video_hash = video_hash })
    IN [gone EXCEPT !.videos = @ \cup
            { [video_hash |-> video_hash,
               video_path |-> video_path,
               processed_at |-> utcnow,
               processing_duration_sec |-> processing_duration,
               has_motion |-> has_motion,
               error_message |-> error_message] }]

MarkProcessed(db, video_hash, video_path, processing_duration, has_motion, error_message, utcnow) ==
    LET gone == DeleteRows(db, { r \in db.videos :
                                   \/ r.video_hash = video_hash
                                   \/ r.video_path = video_path })
    IN [gone EXCEPT !.videos = @ \cup
            { [video_hash |-> video_hash,
               video_path |-> video_path,
               processed_at |-> utcnow,
               processing_duration_sec |-> processing_duration,
               has_motion |-> has_motion,
               error_message |-> error_message] }]

\* add_motion_segment, lines 114-127, for a video_hash that has its videos
\* row (the foreign key rejects any other).  INSERT OR REPLACE first deletes
\* the row that collides on UNIQUE(video_hash, segment_index).
AddMotionSegment(db, video_hash, segment_index, segment, utcnow) ==
    [db EXCEPT !.motion_segments =
        { s \in @ : ~(s.video_hash = video_hash /\ s.segment_index = segment_index) }
        \cup { [video_hash |-> video_hash,
                segment_index |-> segment_index,
                segment |-> segment,
                created_at |-> utcnow] }]

\* cleanup_deleted_videos, lines 129-146
CleanupDeletedVideos(db, existing_video_paths) ==
    LET all_db_paths == { r.video_path : r \in db.videos }
        deleted_paths == all_db_paths \ existing_video_paths
    IN DeleteRows(db, { r \in db.videos : r.video_path \in deleted_paths })

(***************************************************************************)
(* processor.py: the worker function and _save_results.                    *)
(***************************************************************************)
Outcomes ==
    { [raises |-> TRUE, n |-> 0] } \cup { [raises |-> FALSE, n |-> k] : k \in 0..MaxSegs }

\* The MotionSegment list analyze_video returns for a file with n segments.
SegmentsOf(rel, n) == [k \in 1..n |-> [file |-> rel, k |-> k]]

\* process_video_worker, lines 279-294.  detector tells whether the
\* _worker_detector of the calling process is set: TRUE once init_worker
\* has run there, FALSE while it is still None, and then None.analyze_video
\* raises AttributeError, which the except clause turns into the item's
\* error like any other.
\* process_video_worker returning (video, [], {}, None) from its except clause.
ProcessVideoWorkerErrorDropped(video, detector) ==
    LET rel == video.path[2]
    IN IF ~detector \/ analysis[rel].raises
       THEN [video |-> video, segments |-> << >>, error |-> NULL]
       ELSE [video |-> video, segments |-> SegmentsOf(rel, analysis[rel].n),
             error |-> NULL]

ProcessVideoWorker(video, detector) ==
    LET rel == video.path[2]
    IN IF ~detector
       THEN [video |-> video, segments |-> << >>, error |-> "AttributeError"]
       ELSE IF analysis[rel].raises
       THEN [video |-> video, segments |-> << >>, error |-> "ValueError"]
       ELSE [video |-> video, segments |-> SegmentsOf(rel, analysis[rel].n),
             error |-> NULL]

\* init_worker, lines 273-276, in the process of pool worker i: the
\* MotionDetector it leaves in _worker_detector.  serial tells the
\* instances of a run apart.
InitWorker(i, serial) == [worker |-> i, serial |-> serial]

\* process_video_worker constructing a MotionDetector(config) of its own for
\* every item instead of reading the global.
UseDetectorPerItem(detector, i, count) ==
    [detector |-> InitWorker(i, count + 1), constructed |-> count + 1]

\* process_video_worker, lines 281 and 287, in process i: the detector it
\* analyzes with is the global _worker_detector of that process as it finds
\* it (None where init_worker never ran), and it constructs none.
UseDetector(detector, i, count) == [detector |-> detector, constructed |-> count]

\* The segment loop with enumerate(segments) instead of enumerate(segments, 1):
\* segs[from] is stored under index from - 1.
RECURSIVE AddSegmentsFromZero(_, _, _, _, _)
AddSegmentsFromZero(db, video_hash, segs, from, utcnow) ==
    IF from > Len(segs) THEN << >>
    ELSE LET next == AddMotionSegment(db, video_hash, from - 1, segs[from], utcnow)
         IN <<next>> \o AddSegmentsFromZero(next, video_hash, segs, from + 1, utcnow)

\* The stores after each of the transactions add_motion_segment commits for
\* segments[from..], in order.
RECURSIVE AddSegments(_, _, _, _, _)
AddSegments(db, video_hash, segs, from, utcnow) ==
    IF from > Len(segs) THEN << >>
    ELSE LET next == AddMotionSegment(db, video_hash, from, segs[from], utcnow)
         IN <<next>> \o AddSegments(next, video_hash, segs, from + 1, utcnow)

\* _save_results as it would run if mark_processed took the keywords
\* brightness_level and preprocessing_applied: lines 139-155, one transaction
\* for the videos row and one more per segment.
SaveResultsKeywordsAccepted(db, result, utcnow) ==
    LET video == result.video
        marked == MarkProcessed(db, video.hash, video.path,
                                IF result.error # NULL THEN 0 ELSE 1,
                                result.error = NULL /\ Len(result.segments) > 0,
                                result.error, utcnow)
    IN [txns |-> <<marked>> \o
                 AddSegments(marked, video.hash, result.segments, 1, utcnow),
        raises |-> NULL]

\* _save_results, lines 122-155: the stores after each transaction it
\* commits, in order, and the exception it raises (NULL: it returns).
\* Line 139 calls mark_processed with the keywords brightness_level and
\* preprocessing_applied, which mark_processed (database.py lines 99-101)
\* does not take: the call raises TypeError before any statement of
\* mark_processed runs.
SaveResults(db, result, utcnow) ==
    LET video == result.video
    IN IF result.error # NULL
       THEN [txns |-> << MarkProcessed(db, video.hash, video.path, 0, FALSE,
                                       result.error, utcnow) >>,
             raises |-> NULL]
       ELSE [txns |-> << >>, raises |-> "TypeError"]

DbNow == Store(videos, motion_segments)

SetDb(db) ==
    /\ videos' = db.videos
    /\ motion_segments' = db.motion_segments

\* The run is over: the pool is gone and run_scan's locals with it.
EndRun(how) ==
    /\ run_pc' = "idle"
    /\ exit' = how
    /\ task_queue' = << >>
    /\ busy' = << >>
    /\ results' = << >>
    /\ worker_detector' = << >>

OthersUnchanged == UNCHANGED <<det_vars, view_vars, val_vars, scan_vars>>

(***************************************************************************)
(* The operator of the site between runs: files come and go, the tree is   *)
(* mounted elsewhere.                                                      *)
(***************************************************************************)
RemoveFile(rel) ==
    /\ run_pc = "idle" /\ now < MaxRuns
    /\ rel \in disk
    /\ disk' = disk \ {rel}
    /\ UNCHANGED <<root, analysis, db_vars, run_vars>>
    /\ OthersUnchanged

AddFile(rel) ==
    /\ run_pc = "idle" /\ now < MaxRuns
    /\ rel \notin disk
    /\ disk' = disk \cup {rel}
    /\ UNCHANGED <<root, analysis, db_vars, run_vars>>
    /\ OthersUnchanged

MoveRoot(r) ==
    /\ run_pc = "idle" /\ now < MaxRuns
    /\ r # root
    /\ root' = r
    /\ UNCHANGED <<disk, analysis, db_vars, run_vars>>
    /\ OthersUnchanged

(***************************************************************************)
(* processor.py: run_scan, lines 38-49: the catalog is scanned.            *)
(***************************************************************************)
BeginScan(w, order) ==
    /\ run_pc = "idle" /\ now < MaxRuns
    /\ order \in Orders(ScanAllVideos(root, Statable(disk, unreadable)))
    /\ now' = now + 1
    /\ workers' = w
    /\ all_videos' = order
    /\ videos_to_process' = << >>
    /\ run_pc' = "scanned"
    /\ pool_created' = FALSE
    /\ analyzed' = << >>
    /\ persisted' = {}
    /\ handled' = {}
    /\ store_before' = DbNow
    /\ reconciled' = FALSE
    /\ last_run' = [catalog |-> Range(all_videos),
                    outstanding |-> Range(videos_to_process),
                    saved |-> { res.video : res \in persisted },
                    dispatched |->
                        \/ exit \in {"nothing_to_do", "complete", "TypeError",
                                     "save_interrupted"}
                        \/ exit = "crashed" /\ videos_to_process # << >>,
                    exit |-> exit]
    /\ exit' = "running"
    /\ progress' = IF progress_callback
                   THEN << ProgressEvent(Len(order), 0, "Scanning complete, starting processing...",
                                         FALSE, 0) >>
                   ELSE << >>
    /\ constructed' = 0
    /\ UNCHANGED <<task_queue, busy, results, progress_callback, worker_detector,
                   env_vars, db_vars>>
    /\ OthersUnchanged

\* run_scan without lines 51-53: the outstanding videos are computed on the
\* store as the run found it.
CleanupLeftOut ==
    /\ run_pc = "scanned"
    /\ run_pc' = "cleaned"
    /\ UNCHANGED <<now, workers, all_videos, videos_to_process, task_queue, busy,
                   results, pool_created, analyzed, persisted, handled,
                   store_before, reconciled, last_run, exit, progress_callback, progress,
                   worker_detector, constructed, env_vars, db_vars>>
    /\ OthersUnchanged

\* run_scan, lines 51-53
Cleanup ==
    /\ run_pc = "scanned"
    /\ SetDb(CleanupDeletedVideos(DbNow, { v.path : v \in Range(all_videos) }))
    /\ run_pc' = "cleaned"
    /\ reconciled' = TRUE
    /\ UNCHANGED <<now, workers, all_videos, videos_to_process, task_queue, busy,
                   results, pool_created, analyzed, persisted, handled,
                   store_before, last_run, exit, progress_callback, progress,
                   worker_detector, constructed, env_vars>>
    /\ OthersUnchanged

\* run_scan, lines 55-75, up to the first item: the outstanding videos, the
\* early return, the choice of the pool or the caller's own thread.  The
\* pool starts its worker processes when it is constructed, and the first
\* thing each of them does is init_worker (line 95).
Dispatch ==
    /\ run_pc = "cleaned"
    /\ LET processed_hashes ==
               { v.hash : v \in { x \in Range(all_videos) : IsProcessed(DbNow, x.hash) } }
           todo == SelectSeq(all_videos, LAMBDA v : v.hash \notin processed_hashes)
       IN /\ videos_to_process' = todo
          /\ IF todo = << >>
             THEN /\ EndRun("nothing_to_do")
                  /\ UNCHANGED <<pool_created, constructed>>
             ELSE /\ task_queue' = todo
                  /\ results' = << >>
                  /\ exit' = exit
                  /\ IF workers > 1
                     THEN /\ run_pc' = "parallel"
                          /\ pool_created' = TRUE
                          /\ busy' = [i \in 1..workers |-> None]
                          /\ worker_detector' =
                                [i \in 1..workers |-> InitWorker(i, constructed + i)]
                          /\ constructed' = constructed + workers
                     ELSE /\ run_pc' = "sequential"
                          /\ busy' = << >>
                          /\ worker_detector' = << >>
                          /\ UNCHANGED <<pool_created, constructed>>
    /\ UNCHANGED <<now, workers, all_videos, analyzed, persisted, handled,
                   store_before, reconciled, last_run, progress_callback, progress,
                   env_vars, db_vars>>
    /\ OthersUnchanged

RunUnchanged ==
    UNCHANGED <<now, workers, all_videos, videos_to_process, pool_created,
                store_before, reconciled, last_run, progress_callback, env_vars>>

\* _process_parallel, lines 95-97: a pool worker whose init_worker has run
\* takes the next task (chunksize=1) and calls process_video_worker.
WorkerTake(i) ==
    /\ run_pc = "parallel"
    /\ i \in DOMAIN busy /\ busy[i] = None
    /\ task_queue # << >>
    /\ busy' = [busy EXCEPT ![i] = Head(task_queue)]
    /\ task_queue' = Tail(task_queue)
    /\ analyzed' = Append(analyzed, Head(task_queue))
    /\ UNCHANGED <<results, persisted, handled, run_pc, exit, progress,
                   worker_detector, constructed, db_vars>>
    /\ RunUnchanged
    /\ OthersUnchanged

\* process_video_worker given the DatabaseManager and saving its own result
\* before it returns: the store is written from the worker process.
WorkerFinishWritesStore(i) ==
    /\ run_pc = "parallel"
    /\ i \in DOMAIN busy /\ busy[i] # None
    /\ LET result == ProcessVideoWorker(busy[i], worker_detector[i] # None)
           out == SaveResults(DbNow, result, now)
       IN /\ results' = Append(results, result)
          /\ SetDb(IF out.txns = << >> THEN DbNow ELSE out.txns[Len(out.txns)])
    /\ busy' = [busy EXCEPT ![i] = None]
    /\ UNCHANGED <<task_queue, analyzed, persisted, handled, run_pc, exit, progress,
                   worker_detector, constructed>>
    /\ RunUnchanged
    /\ OthersUnchanged

\* process_video_worker returns in pool worker i; imap_unordered queues the
\* result in the order of completion.
WorkerFinish(i) ==
    /\ run_pc = "parallel"
    /\ i \in DOMAIN busy /\ busy[i] # None
    /\ LET used == UseDetector(worker_detector[i], i, constructed)
       IN /\ results' = Append(results, ProcessVideoWorker(busy[i], used.detector # None))
          /\ worker_detector' = [worker_detector EXCEPT ![i] = used.detector]
          /\ constructed' = used.constructed
    /\ busy' = [busy EXCEPT ![i] = None]
    /\ UNCHANGED <<task_queue, analyzed, persisted, handled, run_pc, exit, progress,
                   db_vars>>
    /\ RunUnchanged
    /\ OthersUnchanged

\* _process_sequential, lines 118-119: process_video_worker is called in the
\* caller's process, where init_worker never ran.
SequentialWork ==
    /\ run_pc = "sequential"
    /\ results = << >>
    /\ task_queue # << >>
    /\ LET used == UseDetector(None, 0, constructed)
       IN /\ results' = << ProcessVideoWorker(Head(task_queue), used.detector # None) >>
          /\ constructed' = used.constructed
    /\ task_queue' = Tail(task_queue)
    /\ analyzed' = Append(analyzed, Head(task_queue))
    /\ UNCHANGED <<busy, persisted, handled, run_pc, exit, progress, worker_detector,
                   db_vars>>
    /\ RunUnchanged
    /\ OthersUnchanged

\* _process_parallel, lines 98-108: the progress event of a result taken from
\* the pool.  _process_sequential (lines 116-120) reports nothing.
ReportProgress(result) ==
    IF progress_callback /\ run_pc = "parallel"
    THEN Append(progress,
                ProgressEvent(Len(videos_to_process),
                              Len(SelectSeq(progress, LAMBDA e : e.processed > 0)) + 1,
                              PathName(result.video.path),
                              Len(result.segments) > 0,
                              Len(result.segments)))
    ELSE progress

\* _process_parallel line 110, _process_sequential line 120: _save_results on
\* the oldest result.  It returns, or it raises and nothing in run_scan
\* catches that: leaving the with block terminates the pool.
SaveResult ==
    /\ run_pc \in {"parallel", "sequential"}
    /\ results # << >>
    /\ LET result == Head(results)
           out == SaveResults(DbNow, result, now)
       IN /\ SetDb(IF out.txns = << >> THEN DbNow ELSE out.txns[Len(out.txns)])
          /\ handled' = handled \cup {result}
          /\ IF out.raises = NULL
             THEN /\ persisted' = persisted \cup {result}
                  /\ results' = Tail(results)
                  /\ UNCHANGED <<task_queue, busy, run_pc, exit, worker_detector>>
             ELSE /\ EndRun(out.raises)
                  /\ UNCHANGED persisted
          /\ progress' = ReportProgress(result)
    /\ UNCHANGED <<analyzed, constructed>>
    /\ RunUnchanged
    /\ OthersUnchanged

\* A failing transaction of _save_results caught and logged inside the loop:
\* the result is dropped and the run goes on.
SaveInterruptedSwallowed ==
    /\ run_pc \in {"parallel", "sequential"}
    /\ results # << >>
    /\ SaveResults(DbNow, Head(results), now).txns # << >>
    /\ results' = Tail(results)
    /\ exit' = "save_interrupted"
    /\ progress' = ReportProgress(Head(results))
    /\ UNCHANGED <<task_queue, busy, run_pc, analyzed, persisted, handled,
                   worker_detector, constructed, db_vars>>
    /\ RunUnchanged
    /\ OthersUnchanged

\* _save_results is cut short: the process dies, or a transaction fails and
\* is rolled back (database.py lines 75-78), after k of its transactions.
SaveInterrupted ==
    /\ run_pc \in {"parallel", "sequential"}
    /\ results # << >>
    /\ LET out == SaveResults(DbNow, Head(results), now)
       IN \E k \in 0..(Len(out.txns) - 1) :
            SetDb(IF k = 0 THEN DbNow ELSE out.txns[k])
    /\ EndRun("save_interrupted")
    /\ progress' = ReportProgress(Head(results))
    /\ UNCHANGED <<analyzed, persisted, handled, constructed>>
    /\ RunUnchanged
    /\ OthersUnchanged

\* The process dies between two transactions of a run.
Crash ==
    /\ run_pc # "idle"
    /\ EndRun("crashed")
    /\ UNCHANGED <<analyzed, persisted, handled, progress, constructed, db_vars>>
    /\ RunUnchanged
    /\ OthersUnchanged

\* run_scan, lines 77-85: every result is saved, the statistics are read.
Complete ==
    /\ run_pc \in {"parallel", "sequential"}
    /\ task_queue = << >> /\ results = << >>
    /\ \A i \in DOMAIN busy : busy[i] = None
    /\ EndRun("complete")
    /\ UNCHANGED <<analyzed, persisted, handled, progress, constructed, db_vars>>
    /\ RunUnchanged
    /\ OthersUnchanged

(***************************************************************************)
(* viewer.py: the run-state flag rebuild_status['running'], the request    *)
(* threads of the Flask server (app.run(threaded=True), line 1073) and the *)
(* auto-scan thread.                                                       *)
(***************************************************************************)
MaxRequests == 2                        \* request threads in one behaviour
Threads == 1..MaxRequests
RequestKinds == {"rebuild", "validate"}

RequestRun(t) == <<"request", t>>
AutoRun == <<"auto", 0>>

ViewOnly == UNCHANGED <<det_vars, env_vars, db_vars, run_vars, val_vars, scan_vars>>

\* api_rebuild, lines 908-909; api_validate, lines 952-953: the flag is read.
Request(t, kind) ==
    /\ handler[t].pc = "none"
    /\ handler' = [handler EXCEPT ![t] =
                     [kind |-> kind,
                      pc |-> IF rebuild_running THEN "rejected" ELSE "checked"]]
    /\ UNCHANGED <<rebuild_running, auto_pc, active_runs>>
    /\ ViewOnly

\* api_rebuild, lines 911-938; api_validate, lines 963-991: the flag is set
\* and the thread that runs the processor is started.
StartRun(t) ==
    /\ handler[t].pc = "checked"
    /\ rebuild_running' = TRUE
    /\ active_runs' = active_runs \cup {RequestRun(t)}
    /\ handler' = [handler EXCEPT ![t].pc = "started"]
    /\ UNCHANGED auto_pc
    /\ ViewOnly

\* How run_scan or run_validation_scan leaves: by its last line, by the
\* early return of an empty selection, or by an exception.
RunOutcomes == {"returned", "nothing_to_do", "raised"}

\* The thread function without the assignment in its except clause (lines
\* 932, 984, 1055): a run that raises leaves the flag as it is.
FlagAfterRunRaiseKept(how, running) == IF how = "raised" THEN running ELSE FALSE

\* run_rebuild, lines 923-924 and 930-932; run_validation, lines 975-976 and
\* 982-984; auto_scan_loop, lines 1045-1047 and 1053-1055: the value of
\* rebuild_status['running'] when the thread function is through with a
\* run that left in the way how, running being the value before.
FlagAfterRun(how, running) == FALSE

\* run_rebuild, lines 923-933; run_validation, lines 975-985: the processor
\* returns or raises, and either way the flag is cleared.
RunEnds(t) ==
    /\ handler[t].pc = "started"
    /\ \E how \in RunOutcomes :
         /\ rebuild_running' = FlagAfterRun(how, rebuild_running)
         /\ handler' = [handler EXCEPT ![t].pc =
                           IF how = "raised" THEN "failed" ELSE "finished"]
    /\ active_runs' = active_runs \ {RequestRun(t)}
    /\ UNCHANGED auto_pc
    /\ ViewOnly

\* auto_scan_loop, lines 1027-1031: the sleep ends and the flag is read.
AutoWake ==
    /\ auto_pc = "sleep"
    /\ auto_pc' = IF rebuild_running THEN "sleep" ELSE "checked"
    /\ UNCHANGED <<rebuild_running, handler, active_runs>>
    /\ ViewOnly

\* auto_scan_loop, lines 1039-1045
AutoStart ==
    /\ auto_pc = "checked"
    /\ rebuild_running' = TRUE
    /\ active_runs' = active_runs \cup {AutoRun}
    /\ auto_pc' = "scanning"
    /\ UNCHANGED handler
    /\ ViewOnly

\* auto_scan_loop, lines 1045-1056
AutoEnds ==
    /\ auto_pc = "scanning"
    /\ \E how \in RunOutcomes : rebuild_running' = FlagAfterRun(how, rebuild_running)
    /\ active_runs' = active_runs \ {AutoRun}
    /\ auto_pc' = "sleep"
    /\ UNCHANGED handler
    /\ ViewOnly

(***************************************************************************)
(* scanner.py: scan_all_videos, entry by entry.  The entries under the     *)
(* root are named by their relative paths; what pathlib answers about      *)
(* them is tabulated for the entries tried.                                *)
(***************************************************************************)
TreeEntries ==
    {"cam", "cam/a.mp4", "cam/b.mp4", "cam/c.MKV", "cam/@Snapshot/d.mp4", "cam/e.jpg"}

VIDEO_EXTENSIONS == {".mp4", ".mov", ".mkv", ".avi", ".m4v", ".webm", ".ts"}
SKIP_PATTERNS == {"@SSRECMETA", "@Snapshot", "Thumbnail", "Preview", "RecLog"}

\* Path.is_file()
IsFile(path) == path[2] # "cam"

\* Path.suffix
Suffix(path) ==
    CASE path[2] \in {"cam/a.mp4", "cam/b.mp4", "cam/@Snapshot/d.mp4"} -> ".mp4"
      [] path[2] = "cam/c.MKV" -> ".MKV"
      [] path[2] = "cam/e.jpg" -> ".jpg"
      [] OTHER -> ""

\* str.lower()
Lower(text) == IF text = ".MKV" THEN ".mkv" ELSE text

\* pattern in str(path)
PatternIn(pattern, path) == pattern = "@Snapshot" /\ path[2] = "cam/@Snapshot/d.mp4"

\* _find_video_files, lines 52-70: the paths it returns, in any order.
FindVideoFiles(r, entries) ==
    { path \in { AbsPath(r, rel) : rel \in entries } :
        /\ IsFile(path)
        /\ Lower(Suffix(path)) \in VIDEO_EXTENSIONS
        /\ ~\E pattern \in SKIP_PATTERNS : PatternIn(pattern, path) }

\* Lines 37-45 without the try of line 36: the exception of stat() leaves
\* scan_all_videos.
StatVideoUncaught(video_list, video_path, r, stat_raises) ==
    IF stat_raises
    THEN [videos |-> video_list, raises |-> TRUE]
    ELSE [videos |-> Append(video_list,
                            [path |-> video_path, hash |-> GenerateHash(video_path, r)]),
          raises |-> FALSE]

\* scan_all_videos, lines 36-47: one iteration of the loop.  The list after
\* it, and whether an exception leaves the loop.
StatVideo(video_list, video_path, r, stat_raises) ==
    IF stat_raises
    THEN [videos |-> video_list, raises |-> FALSE]
    ELSE [videos |-> Append(video_list,
                            [path |-> video_path, hash |-> GenerateHash(video_path, r)]),
          raises |-> FALSE]

ScanFrame == UNCHANGED <<tree, unreadable, det_vars, env_vars, db_vars, run_vars,
                         view_vars, val_vars>>

\* scan_all_videos, lines 33-36: _find_video_files has returned.
ScanBegin(order) ==
    /\ scan_pc = "idle"
    /\ order \in Orders(FindVideoFiles(root, tree))
    /\ found' = order
    /\ scan_i' = 0
    /\ scan_videos' = << >>
    /\ scan_pc' = "loop"
    /\ ScanFrame

\* scan_all_videos, lines 36-47: the next entry of the list.
ScanStat ==
    /\ scan_pc = "loop"
    /\ scan_i < Len(found)
    /\ LET video_path == found[scan_i + 1]
           out == StatVideo(scan_videos, video_path, root, video_path[2] \in unreadable)
       IN /\ scan_videos' = out.videos
          /\ scan_pc' = IF out.raises THEN "failed" ELSE "loop"
    /\ scan_i' = scan_i + 1
    /\ UNCHANGED found
    /\ ScanFrame

\* scan_all_videos, lines 49-50
ScanReturn ==
    /\ scan_pc = "loop"
    /\ scan_i = Len(found)
    /\ scan_pc' = "done"
    /\ UNCHANGED <<found, scan_i, scan_videos>>
    /\ ScanFrame

(***************************************************************************)
(* Initial states.  Each specification starts its own part and parks the   *)
(* others.                                                                 *)
(***************************************************************************)
DetParked ==
    /\ end_grace_frames = 6
    /\ min_segment_duration = 1
    /\ sample_every = 1
    /\ brightness = 80
    /\ areas = << >>
    /\ frame_idx = 0
    /\ current_segment = None
    /\ segments = << >>
    /\ det_pc = "done"

\* viewer.py, line 63, before any request
ViewInit ==
    /\ rebuild_running = FALSE
    /\ handler = [t \in Threads |-> [kind |-> "rebuild", pc |-> "none"]]
    /\ auto_pc = "sleep"
    /\ active_runs = {}

\* What an earlier deployment left in the database file for the files in
\* seeded, all analyzed under mount point r at time 0: per file the videos
\* row and the motion_segments rows of its analysis.
SeededStore(seeded, r, outcome) ==
    Store({ [video_hash |-> GenerateHash(AbsPath(r, rel), r),
             video_path |-> AbsPath(r, rel),
             processed_at |-> 0,
             processing_duration_sec |-> IF outcome[rel].raises THEN 0 ELSE 1,
             has_motion |-> outcome[rel].n > 0,
             error_message |-> IF outcome[rel].raises THEN "ValueError" ELSE NULL] :
            rel \in seeded },
          { s \in [video_hash : { GenerateHash(AbsPath(r, rel), r) : rel \in seeded },
                   segment_index : 1..MaxSegs,
                   segment : { [file |-> rel, k |-> k] : rel \in seeded, k \in 1..MaxSegs },
                   created_at : {0}] :
              /\ s.video_hash = Sha256Hex16(s.segment.file)
              /\ s.segment_index = s.segment.k
              /\ s.segment.k <= outcome[s.segment.file].n })

\* processor.py, lines 22-28: a MotionProcessor over the tree and the
\* database file, no run started yet.
RunInit ==
    /\ root = "/volume1"
    /\ disk = Files
    /\ analysis \in [Files -> Outcomes]
    /\ \E seeded \in SUBSET Files :
         /\ videos = SeededStore(seeded, root, analysis).videos
         /\ motion_segments = SeededStore(seeded, root, analysis).motion_segments
    /\ now = 0
    /\ run_pc = "idle"
    /\ workers = 1
    /\ all_videos = << >>
    /\ videos_to_process = << >>
    /\ task_queue = << >>
    /\ busy = << >>
    /\ results = << >>
    /\ pool_created = FALSE
    /\ analyzed = << >>
    /\ persisted = {}
    /\ handled = {}
    /\ store_before = Store({}, {})
    /\ reconciled = FALSE
    /\ last_run = [catalog |-> {}, outstanding |-> {}, saved |-> {},
                   dispatched |-> FALSE, exit |-> "none"]
    /\ exit = "none"
    /\ progress_callback = TRUE
    /\ progress = << >>
    /\ worker_detector = << >>
    /\ constructed = 0

RunParked ==
    /\ root = "/volume1"
    /\ disk = {}
    /\ analysis = [rel \in Files |-> [raises |-> FALSE, n |-> 0]]
    /\ videos = {}
    /\ motion_segments = {}
    /\ now = 0
    /\ run_pc = "idle"
    /\ workers = 1
    /\ all_videos = << >>
    /\ videos_to_process = << >>
    /\ task_queue = << >>
    /\ busy = << >>
    /\ results = << >>
    /\ pool_created = FALSE
    /\ analyzed = << >>
    /\ persisted = {}
    /\ handled = {}
    /\ store_before = Store({}, {})
    /\ reconciled = FALSE
    /\ last_run = [catalog |-> {}, outstanding |-> {}, saved |-> {},
                   dispatched |-> FALSE, exit |-> "none"]
    /\ exit = "none"
    /\ progress_callback = TRUE
    /\ progress = << >>
    /\ worker_detector = << >>
    /\ constructed = 0

ViewParked ==
    /\ rebuild_running = FALSE
    /\ handler = [t \in Threads |-> [kind |-> "rebuild", pc |-> "finished"]]
    /\ auto_pc = "off"
    /\ active_runs = {}

\* No validation rescan in this behaviour.
ValParked ==
    /\ reanalysis = [rel \in Files |-> [raises |-> FALSE, n |-> 0]]
    /\ rare = {}
    /\ val_pc = "off"
    /\ val_queue = << >>
    /\ validated = {}
    /\ val_log = << >>
    /\ validation_model = "yolov8x.pt"

\* No scan is followed entry by entry in this behaviour.
ScanParked ==
    /\ tree = {}
    /\ unreadable = {}
    /\ found = << >>
    /\ scan_i = 0
    /\ scan_videos = << >>
    /\ scan_pc = "off"

\* scanner.py, lines 27-29: a VideoScanner over a tree, some of whose entries
\* cannot be stat-ed.
ScanInit ==
    /\ tree \in SUBSET TreeEntries
    /\ unreadable \in SUBSET tree
    /\ found = << >>
    /\ scan_i = 0
    /\ scan_videos = << >>
    /\ scan_pc = "idle"

Init == RunInit /\ DetParked /\ ViewParked /\ ValParked /\ ScanParked

Next ==
    \/ \E rel \in Files : RemoveFile(rel)
    \/ \E rel \in Files : AddFile(rel)
    \/ \E r \in Roots : MoveRoot(r)
    \/ \E w \in WorkerChoices,
          order \in Orders(ScanAllVideos(root, Statable(disk, unreadable))) :
         BeginScan(w, order)
    \/ Cleanup
    \/ Dispatch
    \/ \E i \in DOMAIN busy : WorkerTake(i)
    \/ \E i \in DOMAIN busy : WorkerFinish(i)
    \/ SequentialWork
    \/ SaveResult
    \/ SaveInterrupted
    \/ Crash
    \/ Complete

Spec == Init /\ [][Next]_vars

ViewerInit == ViewInit /\ DetParked /\ RunParked /\ ValParked /\ ScanParked

ViewerNext ==
    \/ \E t \in Threads, kind \in RequestKinds : Request(t, kind)
    \/ \E t \in Threads : StartRun(t)
    \/ \E t \in Threads : RunEnds(t)
    \/ AutoWake
    \/ AutoStart
    \/ AutoEnds

SpecViewer == ViewerInit /\ [][ViewerNext]_vars

DetectorInit == DetInit /\ RunParked /\ ViewParked /\ ValParked /\ ScanParked

DetNext ==
    \/ SkipFrame
    \/ \E a \in AreaChoices : SampleFrame(a)
    \/ EndOfStream

SpecDetector == DetectorInit /\ [][DetNext]_vars

ScannerInit == ScanInit /\ DetParked /\ RunParked /\ ViewParked /\ ValParked

ScanNext ==
    \/ \E order \in Orders(FindVideoFiles(root, tree)) : ScanBegin(order)
    \/ ScanStat
    \/ ScanReturn

SpecScanner == ScannerInit /\ [][ScanNext]_vars

(***************************************************************************)
(* The grace-period law on the activity sequence                           *)
(* [0,0,A,A,A,0,0,0,0,0,0,A,A], A at the effective min-area threshold.     *)
(***************************************************************************)
A == GetAdaptiveMinArea(80)

GraceSeq == <<0, 0, A, A, A, 0, 0, 0, 0, 0, 0, A, A>>

\* analyze_video has returned for GraceSeq, every frame sampled, nothing filtered.
GraceRun(grace) ==
    /\ det_pc = "done"
    /\ areas = GraceSeq
    /\ sample_every = 1
    /\ min_segment_duration = 1
    /\ end_grace_frames = grace

Spans(seg, first, last) == seg.start_time = first /\ seg.end_time = last

\* C1 as stated: with end_grace_frames = 6 the sequence GraceSeq yields exactly
\* one segment, spanning frames 3 to 13 (the gap of 6 does not split it).
C1_Original ==
    GraceRun(6) => Len(segments) = 1 /\ Spans(segments[1], 3, 13)

\* C1 amended: with end_grace_frames = 6 the gap of 6 sub-threshold frames
\* closes the segment at frame 11 (the 6th of them) and frames 12-13 form a
\* second segment; only with the gap shorter than end_grace_frames (here
\* end_grace_frames = 7) is the result the one segment spanning frames 3 to 13.
\* While a segment is open its counter stays below end_grace_frames.
C1_GraceLaw ==
    /\ GraceRun(6) => /\ Len(segments) = 2
                      /\ Spans(segments[1], 3, 11)
                      /\ Spans(segments[2], 12, 13)
    /\ GraceRun(7) => Len(segments) = 1 /\ Spans(segments[1], 3, 13)
    /\ current_segment # None => current_segment.grace_counter < end_grace_frames

C1_Witness == GraceRun(6) /\ Len(segments) = 2

\* C2: with end_grace_frames = 5 the sequence GraceSeq yields exactly two
\* segments: the first is closed during the gap (at frame 10, so the detector
\* is idle with one segment emitted when the gap ends), frame 12 opens the
\* second, and the end of the stream flushes it.
C2_TwoSegments ==
    /\ GraceRun(5) => /\ Len(segments) = 2
                      /\ Spans(segments[1], 3, 10)
                      /\ Spans(segments[2], 12, 13)
    /\ ( /\ end_grace_frames = 5 /\ sample_every = 1 /\ min_segment_duration = 1
         /\ det_pc = "loop" )
       => /\ areas = SubSeq(GraceSeq, 1, 11)
             => current_segment = None /\ Len(segments) = 1
          /\ areas = SubSeq(GraceSeq, 1, 12)
             => /\ current_segment # None
                /\ current_segment.start_frame = 12
                /\ Len(segments) = 1

C2_Witness == GraceRun(5) /\ Len(segments) = 2 /\ current_segment = None

(***************************************************************************)
(* The store as a run leaves it.                                           *)
(***************************************************************************)
RowsOf(db, video_hash) == { r \in db.videos : r.video_hash = video_hash }

SegmentRowsOf(db, video_hash) ==
    { s \in db.motion_segments : s.video_hash = video_hash }

\* The segments stored under video_hash, as <<segment_index, MotionSegment>>.
StoredSegments(db, video_hash) ==
    { <<s.segment_index, s.segment>> : s \in SegmentRowsOf(db, video_hash) }

\* The same for a result's list of segments, numbered from 1.
Numbered(segs) == { <<k, segs[k]>> : k \in DOMAIN segs }

Interrupted(how) == how \in {"crashed", "save_interrupted", "TypeError"}

\* run_scan has computed videos_to_process in the current (or last) run.
Dispatched ==
    \/ run_pc \in {"parallel", "sequential"}
    \/ /\ run_pc = "idle"
       /\ \/ exit \in {"nothing_to_do", "complete", "TypeError", "save_interrupted"}
          \/ exit = "crashed" /\ videos_to_process # << >>

\* The run before got as far as its outstanding videos, and this run scans
\* the same catalog.
SameCatalogAgain ==
    /\ last_run.dispatched
    /\ run_pc # "idle" \/ exit # "none"
    /\ Range(all_videos) = last_run.catalog

\* What the run before left to do.
Remaining == last_run.outstanding \ last_run.saved

C4_Resumable ==
    /\ \A v \in Range(videos_to_process) :
         /\ IsProcessed(DbNow, v.hash) <=> \E res \in persisted : res.video = v
         /\ Cardinality(RowsOf(DbNow, v.hash)) <= 1
    /\ Cardinality({ r \in videos :
                       /\ r.processed_at # NULL_TIME
                       /\ \E v \in Range(videos_to_process) : v.hash = r.video_hash })
         = Cardinality(persisted)
    /\ \A res \in persisted :
         \E r \in videos :
            /\ r.video_hash = res.video.hash /\ r.video_path = res.video.path
            /\ r.processed_at = now /\ r.error_message = res.error
    /\ SameCatalogAgain =>
         /\ Dispatched => Range(videos_to_process) = Remaining
         /\ Range(analyzed) \subseteq Remaining
         /\ \A i, j \in DOMAIN analyzed : i # j => analyzed[i] # analyzed[j]
         /\ (run_pc = "idle" /\ exit = "complete") => Range(analyzed) = Remaining

C4_Witness ==
    /\ run_pc = "idle" /\ exit = "complete"
    /\ SameCatalogAgain
    /\ Interrupted(last_run.exit)
    /\ last_run.saved # {}
    /\ Range(analyzed) = Remaining
    /\ analyzed # << >>

CatalogHashes == { v.hash : v \in Range(all_videos) }

\* A run has scanned its catalog (it may be over since).
Scanned == run_pc # "idle" \/ exit # "none"

\* C5: idempotent skip.  A run that finds every hash of its catalog processed
\* in the store calls the worker on nothing, creates no pool, and leaves the
\* videos rows and motion_segments rows of the catalog's hashes as they were
\* when it started.
C5_IdempotentSkip ==
    (Scanned /\ \A v \in Range(all_videos) : IsProcessed(store_before, v.hash)) =>
        /\ analyzed = << >>
        /\ ~pool_created
        /\ \A v \in Range(all_videos) :
             /\ RowsOf(DbNow, v.hash) = RowsOf(store_before, v.hash)
             /\ SegmentRowsOf(DbNow, v.hash) = SegmentRowsOf(store_before, v.hash)

\* C6: after _save_results has handled a result without error, the store has
\* the videos row of its hash with processed_at set, error_message NULL and
\* has_motion = (number of segments > 0), and the segments stored under the
\* hash are those of the result.
C6_SuccessSaved ==
    \A res \in handled :
        res.error = NULL =>
            /\ \E r \in videos :
                 /\ r.video_hash = res.video.hash
                 /\ r.processed_at # NULL_TIME
                 /\ r.error_message = NULL
                 /\ r.has_motion = (Len(res.segments) > 0)
            /\ StoredSegments(DbNow, res.video.hash) = Numbered(res.segments)

\* C7: a completed run with parallel_workers = 1 leaves, for each outstanding
\* video, the row and the segments of the result a pool worker returns for it.
C7_SequentialSameStore ==
    (run_pc = "idle" /\ exit = "complete" /\ workers = 1) =>
        \A v \in Range(videos_to_process) :
            LET pooled == ProcessVideoWorker(v, TRUE)
            IN /\ \E r \in videos :
                    /\ r.video_hash = v.hash
                    /\ r.error_message = pooled.error
                    /\ r.has_motion = (Len(pooled.segments) > 0)
               /\ StoredSegments(DbNow, v.hash) = Numbered(pooled.segments)

\* C8: at most one run is active at any time, whatever the interleaving of
\* the request threads and the auto-scan thread.
C8_AtMostOneRun == Cardinality(active_runs) <= 1

\* C9: deletion reconciliation.  When a stored record's file is not in the
\* catalog of a run, then after cleanup no stored record of a file outside
\* the catalog and none of its segments is left, and the row and the segments
\* of every processed file of the catalog are as they were before the run.
C9_Reconciliation ==
    (reconciled /\ \E r \in store_before.videos : r.video_hash \notin CatalogHashes) =>
        /\ \A r \in store_before.videos :
             r.video_hash \notin CatalogHashes =>
                /\ RowsOf(DbNow, r.video_hash) = {}
                /\ SegmentRowsOf(DbNow, r.video_hash) = {}
        /\ \A v \in Range(all_videos) :
             IsProcessed(store_before, v.hash) =>
                /\ RowsOf(DbNow, v.hash) = RowsOf(store_before, v.hash)
                /\ SegmentRowsOf(DbNow, v.hash) = SegmentRowsOf(store_before, v.hash)

\* The run before scanned the same relative paths under another root.
RootMoved ==
    /\ Scanned /\ last_run.exit \in {"complete", "nothing_to_do"}
    /\ all_videos # << >>
    /\ CatalogHashes = { u.hash : u \in last_run.catalog }
    /\ \A v \in Range(all_videos), u \in last_run.catalog : v.path[1] # u.path[1]

\* C10: moving the root keeps history.  A run over the relative paths of the
\* run before, under another root, leaves a row for every hash that had one
\* when it started and calls the worker on no video the run before saved.
C10_RootMoveKeepsHistory ==
    RootMoved =>
        /\ \A r \in store_before.videos : RowsOf(DbNow, r.video_hash) # {}
        /\ \A v \in Range(analyzed) :
             v.hash \notin { u.hash : u \in last_run.saved }

(***************************************************************************)
(* The minimum-duration filter of the detector.                            *)
(***************************************************************************)
Duration(seg) == seg.end_time - seg.start_time

\* The step closes the open candidate, at the grace counter or at the end of
\* the stream: the candidate became a segment spanning its start to end_time,
\* or, when shorter than min_segment_duration, nothing was emitted.
ClosedAsFiltered ==
    (current_segment # None /\ current_segment' = None) =>
        LET end_time == IF det_pc' = "done" THEN frame_idx ELSE frame_idx'
        IN IF end_time - current_segment.start_time < min_segment_duration
           THEN segments' = segments
           ELSE /\ Len(segments') = Len(segments) + 1
                /\ SubSeq(segments', 1, Len(segments)) = segments
                /\ Spans(segments'[Len(segments')], current_segment.start_time, end_time)

\* C15: every segment analyze_video emits lasts at least
\* min_segment_duration; a candidate closed by the grace counter or flushed
\* at the end of the stream that is shorter is dropped, nothing of it is
\* emitted, and the detector is idle (no open segment) after either.
C15_MinDuration ==
    /\ [](/\ \A i \in DOMAIN segments : Duration(segments[i]) >= min_segment_duration
          /\ det_pc = "done" => current_segment = None)
    /\ [][ClosedAsFiltered]_vars

\* One candidate dropped at the grace counter (frames 1 to 6, duration 5) and
\* one dropped at the flush (frame 7, duration 0).
C15_Witness ==
    /\ det_pc = "done"
    /\ end_grace_frames = 5 /\ min_segment_duration = 8 /\ sample_every = 1
    /\ areas = <<A, 0, 0, 0, 0, 0, A>>
    /\ segments = << >>
    /\ current_segment = None

(***************************************************************************)
(* Brightness adaptivity: analyze_video on short videos, every frame       *)
(* sampled, under brightness estimates on both sides of the cutoff and     *)
(* areas on both sides of both thresholds.                                 *)
(***************************************************************************)
MaxBrightFrames == 4
BrightLevels == {DarkCutoff - 1, DarkCutoff, 80}
ScaledMinArea == (3 * min_motion_area) \div 2
BrightAreaChoices == {0, min_motion_area - 1, min_motion_area, ScaledMinArea - 1, ScaledMinArea}

BrightInit ==
    /\ end_grace_frames = 6
    /\ min_segment_duration = 1
    /\ sample_every = 1
    /\ brightness \in BrightLevels
    /\ areas = << >>
    /\ frame_idx = 0
    /\ current_segment = None
    /\ segments = << >>
    /\ det_pc = "loop"

BrightSampleFrame(max_area) == frame_idx < MaxBrightFrames /\ SampleFrame(max_area)

BrightNext ==
    \/ \E a \in BrightAreaChoices : BrightSampleFrame(a)
    \/ EndOfStream

BrightnessInit == BrightInit /\ RunParked /\ ViewParked /\ ValParked /\ ScanParked

SpecBrightness == BrightnessInit /\ [][BrightNext]_vars

\* Every area so far lies in [lo, hi].
AreasWithin(lo, hi) ==
    areas # << >> /\ \A i \in DOMAIN areas : lo <= areas[i] /\ areas[i] <= hi

NeverOpened == current_segment = None /\ segments = << >>

OpenSinceFirstFrame == current_segment # None /\ current_segment.start_frame = 1

\* C16: with min_motion_area = 800 the threshold is 1200 = int(800 * 1.5) for
\* a brightness estimate below 60 and 800 otherwise, 60 itself included:
\* frames whose areas all lie in [800, 1200) open a segment at the first frame
\* under an estimate of 60 or more and never open one under an estimate below
\* 60; areas of 1200 open one under any estimate, areas below 800 under none.
C16_BrightnessAdaptive ==
    /\ (AreasWithin(min_motion_area, ScaledMinArea - 1) /\ brightness >= DarkCutoff /\ det_pc = "loop")
         => OpenSinceFirstFrame
    /\ (AreasWithin(min_motion_area, ScaledMinArea - 1) /\ brightness < DarkCutoff)
         => NeverOpened
    /\ (AreasWithin(ScaledMinArea, ScaledMinArea) /\ det_pc = "loop") => OpenSinceFirstFrame
    /\ AreasWithin(0, min_motion_area - 1) => NeverOpened

\* The same two frames in [800, 1200) seen under estimate 60: a segment is open.
C16_Witness ==
    /\ brightness = DarkCutoff
    /\ areas = <<min_motion_area, ScaledMinArea - 1>>
    /\ det_pc = "loop"
    /\ OpenSinceFirstFrame

(***************************************************************************)
(* Progress events of a run.                                               *)
(***************************************************************************)
\* The events of completed items: those after the event of the scan.
ItemEvents == SelectSeq(progress, LAMBDA e : e.processed > 0)

\* C18: a completed run with a callback registered, pooled or sequential, has
\* emitted exactly one progress event per outstanding item: the k-th has
\* processed = k and total = the number of outstanding items, each names one
\* of the items with its outcome, no item twice, and the last has
\* processed = total.
C18_ProgressPerItem ==
    (run_pc = "idle" /\ exit = "complete" /\ progress_callback) =>
        LET M == Len(videos_to_process)
        IN /\ Len(ItemEvents) = M
           /\ \A k \in DOMAIN ItemEvents :
                /\ ItemEvents[k].processed = k
                /\ ItemEvents[k].total = M
                /\ \E res \in persisted :
                     /\ ItemEvents[k].current_file = PathName(res.video.path)
                     /\ ItemEvents[k].segments = Len(res.segments)
                     /\ ItemEvents[k].has_motion = (Len(res.segments) > 0)
           /\ \A j, k \in DOMAIN ItemEvents :
                j # k => ItemEvents[j].current_file # ItemEvents[k].current_file

(***************************************************************************)
(* Order of persistence.                                                   *)
(***************************************************************************)
\* The store after _save_results was called on the results of seq in order,
\* up to and including the first call that raises.
RECURSIVE SaveAll(_, _, _)
SaveAll(db, seq, utcnow) ==
    IF seq = << >> THEN db
    ELSE LET out == SaveResults(db, Head(seq), utcnow)
             after == IF out.txns = << >> THEN db ELSE out.txns[Len(out.txns)]
         IN IF out.raises # NULL THEN after ELSE SaveAll(after, Tail(seq), utcnow)

\* The store of the run after cleanup_deleted_videos.
CleanedStore ==
    CleanupDeletedVideos(store_before, { v.path : v \in Range(all_videos) })

\* What the pool's workers return for the outstanding videos, in catalog order.
CatalogOrderResults ==
    [i \in DOMAIN videos_to_process |-> ProcessVideoWorker(videos_to_process[i], TRUE)]

\* C12: a pooled run that has called _save_results on its results in the
\* order of their completion, whatever that order, leaves the store that
\* saving the same results in catalog order leaves.
C12_UnorderedSafe ==
    (run_pc = "idle" /\ workers > 1 /\ reconciled /\ exit \in {"complete", "TypeError"}) =>
        DbNow = SaveAll(CleanedStore, CatalogOrderResults, now)

(***************************************************************************)
(* Failure isolation in the pool.                                          *)
(***************************************************************************)
\* The results the orchestrator holds or has handled in this run.
Delivered == Range(results) \cup handled

\* The step delivers the error result of a pool worker to the orchestrator,
\* or _save_results returns from saving one.
ErrorResultStep ==
    \/ /\ Len(results') = Len(results) + 1
       /\ results'[Len(results')].error # NULL
    \/ /\ handled' # handled
       /\ \E res \in handled' \ handled : res.error # NULL

\* C13: in a pooled run the result delivered for a video whose analysis
\* raises is that video with no segments and the error; delivering or saving
\* such a result leaves the pool running, the queued tasks queued and the
\* other workers at their items; and a run that completes has called the
\* worker on every outstanding video and handled the result of each.
C13_FailureIsolated ==
    /\ [](workers > 1 =>
            /\ \A res \in Delivered :
                 analysis[res.video.path[2]].raises
                    => res.segments = << >> /\ res.error # NULL
            /\ (run_pc = "idle" /\ exit = "complete") =>
                 /\ Range(analyzed) = Range(videos_to_process)
                 /\ { res.video : res \in handled } = Range(videos_to_process))
    /\ [][(run_pc = "parallel" /\ ErrorResultStep) =>
            /\ run_pc' = "parallel"
            /\ task_queue' = task_queue
            /\ \A i \in DOMAIN busy :
                 \/ busy'[i] = busy[i]
                 \/ busy'[i] = None /\ results'[Len(results')].video = busy[i]]_vars

\* A pooled run completed for two videos, the analysis of one of which raised.
C13_Witness ==
    /\ run_pc = "idle" /\ exit = "complete" /\ workers > 1
    /\ Len(videos_to_process) = 2
    /\ \E res \in handled : res.error # NULL /\ analysis[res.video.path[2]].raises
    /\ Cardinality(handled) = 2

(***************************************************************************)
(* Saving the result of a failed analysis.                                 *)
(***************************************************************************)
\* The error result of a failed analysis of the file of videos row r.
ErrorResultFor(r) ==
    [video |-> [path |-> r.video_path, hash |-> r.video_hash],
     segments |-> << >>, error |-> "ValueError"]

\* The videos row _save_results is to leave for an error result.
ErrorRow(res, utcnow) ==
    [video_hash |-> res.video.hash, video_path |-> res.video.path,
     processed_at |-> utcnow, processing_duration_sec |-> 0,
     has_motion |-> FALSE, error_message |-> res.error]

\* C14: every error result _save_results has saved in the run has its videos
\* row with error_message = the error, duration 0 and has_motion false, and
\* no segment under its hash.  The same holds of _save_results called with
\* an error result for any hash the store holds, with or without segments:
\* it returns after one transaction that leaves exactly that row and no
\* segment under the hash, and the rows of the other hashes as they were.
C14_ErrorSaved ==
    /\ \A res \in persisted :
         res.error # NULL =>
            /\ RowsOf(DbNow, res.video.hash) = { ErrorRow(res, now) }
            /\ SegmentRowsOf(DbNow, res.video.hash) = {}
    /\ \A r \in videos :
         LET res == ErrorResultFor(r)
             out == SaveResults(DbNow, res, now + 1)
         IN /\ out.raises = NULL /\ Len(out.txns) = 1
            /\ RowsOf(out.txns[1], r.video_hash) = { ErrorRow(res, now + 1) }
            /\ SegmentRowsOf(out.txns[1], r.video_hash) = {}
            /\ \A q \in videos :
                 q.video_hash # r.video_hash =>
                    /\ q \in out.txns[1].videos
                    /\ SegmentRowsOf(out.txns[1], q.video_hash) =
                           SegmentRowsOf(DbNow, q.video_hash)

\* An error result was saved in this run, and the store holds a hash with
\* segments of an earlier result.
C14_Witness ==
    /\ \E res \in persisted : res.error # NULL /\ analysis[res.video.path[2]].raises
    /\ motion_segments # {}

(***************************************************************************)
(* A store write that fails during a run.                                  *)
(***************************************************************************)
\* The rows this run has written.
RowsOfThisRun == { r \in videos : Scanned /\ r.processed_at = now }

\* C17: a failing store write while an item is persisted ends the run there:
\* the step leaves the store as it was before the failed transaction and the
\* set of persisted results as it was, the run is over with the failure as
\* its outcome (not "complete"), nothing is queued or in flight any more, and
\* the rows written by the run are those of the results persisted before the
\* failure, no later one.
C17_WriteFailureAborts ==
    /\ [](exit = "save_interrupted" =>
            /\ run_pc = "idle"
            /\ task_queue = << >> /\ results = << >> /\ busy = << >>
            /\ { r.video_hash : r \in RowsOfThisRun } = { res.video.hash : res \in persisted })
    /\ [][(exit' = "save_interrupted" /\ exit # "save_interrupted") =>
            /\ results # << >>
            /\ DbNow' = DbNow
            /\ ~IsProcessed(DbNow', Head(results).video.hash)
            /\ persisted' = persisted
            /\ run_pc' = "idle"]_vars

\* The first of two outstanding items was persisted, the write for the
\* second failed: the run is over with one row written.
C17_Witness ==
    /\ run_pc = "idle" /\ exit = "save_interrupted"
    /\ Len(videos_to_process) = 2
    /\ Cardinality(persisted) = 1
    /\ Cardinality(RowsOfThisRun) = 1

(***************************************************************************)
(* One record per identity hash.                                           *)
(***************************************************************************)
OneRowPerHash(db) ==
    \A r, q \in db.videos : r.video_hash = q.video_hash => r = q

\* C19: no reachable store holds two videos rows with the same video_hash,
\* and _save_results called for a hash that has a row (here with an error
\* result, the one kind it can save) leaves one row for it, the new one.
C19_OneRecordPerHash ==
    /\ OneRowPerHash(DbNow)
    /\ \A r \in videos :
         LET out == SaveResults(DbNow, ErrorResultFor(r), now + 1)
         IN /\ out.txns # << >>
            /\ OneRowPerHash(out.txns[1])
            /\ Cardinality(out.txns[1].videos) = Cardinality(videos)
            /\ \E q \in out.txns[1].videos :
                 q.video_hash = r.video_hash /\ q.processed_at = now + 1

\* The run has written a row next to the row of another hash.
C19_Witness ==
    /\ persisted # {}
    /\ Cardinality(videos) = 2
    /\ \E r \in videos : r.processed_at = now
    /\ \E r \in videos : r.processed_at # now

(***************************************************************************)
(* processor.py: run_validation_scan, lines 166-270.  The store operations *)
(* get_videos_for_validation and mark_validated it calls are not in        *)
(* database.py; they are taken from the description of the result store:   *)
(* selectForValidation(labelSet) and markValidated(identityHash, modelId). *)
(***************************************************************************)
\* The rows whose recorded labels meet the rare label set.
GetVideosForValidation(db, rare_files) ==
    { r \in db.videos :
        /\ r.processed_at # NULL_TIME
        /\ r.video_path[2] \in rare_files
        /\ SegmentRowsOf(db, r.video_hash) # {} }

MarkValidated(marks, video_hash, model) ==
    marks \cup { [video_hash |-> video_hash, model |-> model] }

\* The values of validation_model tried: the default and another model the
\* docstring of run_validation_scan names.
ValidationModels == {"yolov8x.pt", "yolov8l.pt"}

\* Line 208 without the test: every row's file is taken to be there.
ExistsAlways(path) == TRUE

\* Path.exists(), line 208
Exists(path) == path[1] = root /\ path[2] \in disk

MaxValSegs == 2                 \* most segments a re-analysis returns for a file

ValOutcomes ==
    { [raises |-> TRUE, n |-> 0] } \cup { [raises |-> FALSE, n |-> k] : k \in 0..MaxValSegs }

\* The MotionSegment list the validation model returns for a file with n
\* segments: other detections than those of the first analysis.
ValidationSegmentsOf(rel, n) == [k \in 1..n |-> [file |-> rel, k |-> MaxSegs + k]]

\* Lines 228-232 left out: the old segments are not deleted.
ClearSegmentsSkipped(db, video_hash) == db

\* DELETE FROM motion_segments WHERE video_hash = ?, lines 228-232
ClearSegments(db, video_hash) ==
    [db EXCEPT !.motion_segments = { s \in @ : s.video_hash # video_hash }]

\* The stores after each transaction of lines 227-244, in order.
ValidationTxns(db, video_hash, segs, utcnow) ==
    LET cleared == ClearSegments(db, video_hash)
    IN <<cleared>> \o AddSegments(cleared, video_hash, segs, 1, utcnow)

ValNow == now + 1

ValLogEntry(info, outcome, segs) ==
    [hash |-> info.video_hash, outcome |-> outcome,
     before |-> StoredSegments(DbNow, info.video_hash), segments |-> segs]

ValFrame == UNCHANGED <<reanalysis, rare, validation_model, det_vars, env_vars, view_vars, scan_vars, now, run_pc,
                        workers, all_videos, videos_to_process, task_queue, busy,
                        results, pool_created, analyzed, persisted, handled,
                        store_before, reconciled, last_run, exit, progress_callback,
                        worker_detector, constructed>>

\* Lines 190-196: the selection, and the early return when it is empty.
ValBegin(order) ==
    /\ val_pc = "idle"
    /\ order \in Orders(GetVideosForValidation(DbNow, rare))
    /\ val_queue' = order
    /\ val_pc' = IF order = << >> THEN "done" ELSE "loop"
    /\ UNCHANGED <<validated, val_log, progress, db_vars>>
    /\ ValFrame

\* Lines 208-210: the file of the row is gone.
ValSkipMissing ==
    /\ val_pc = "loop" /\ val_queue # << >>
    /\ ~Exists(Head(val_queue).video_path)
    /\ val_queue' = Tail(val_queue)
    /\ val_log' = Append(val_log, ValLogEntry(Head(val_queue), "missing", << >>))
    /\ UNCHANGED <<val_pc, validated, progress, db_vars>>
    /\ ValFrame

\* Lines 224-225 and 265-266: analyze_video raises, the except clause logs it.
ValAnalysisFails ==
    /\ val_pc = "loop" /\ val_queue # << >>
    /\ Exists(Head(val_queue).video_path)
    /\ reanalysis[Head(val_queue).video_path[2]].raises
    /\ val_queue' = Tail(val_queue)
    /\ val_log' = Append(val_log, ValLogEntry(Head(val_queue), "failed", << >>))
    /\ UNCHANGED <<val_pc, validated, progress, db_vars>>
    /\ ValFrame

\* The row at the head of the queue can be re-analyzed; its new segments.
ValReady == 
    /\ val_pc = "loop" /\ val_queue # << >>
    /\ Exists(Head(val_queue).video_path)
    /\ ~reanalysis[Head(val_queue).video_path[2]].raises

ValSegments ==
    ValidationSegmentsOf(Head(val_queue).video_path[2],
                         reanalysis[Head(val_queue).video_path[2]].n)

\* Lines 212-263: the row is re-analyzed, its segments are replaced, it is
\* marked validated and the progress is reported.
ValidateItem ==
    /\ ValReady
    /\ LET info == Head(val_queue)
           txns == ValidationTxns(DbNow, info.video_hash, ValSegments, ValNow)
       IN /\ SetDb(txns[Len(txns)])
          /\ validated' = MarkValidated(validated, info.video_hash, validation_model)
          /\ val_log' = Append(val_log, ValLogEntry(info, "validated", ValSegments))
          /\ progress' =
                IF progress_callback
                THEN Append(progress,
                            ProgressEvent(Len(val_log) + Len(val_queue),
                                          Cardinality(validated') ,
                                          <<"Validating: ", PathName(info.video_path)>>,
                                          Len(ValSegments) > 0, Len(ValSegments)))
                ELSE progress
    /\ val_queue' = Tail(val_queue)
    /\ UNCHANGED val_pc
    /\ ValFrame

\* A transaction of lines 227-247 fails after k of them were committed; the
\* except clause of line 265 logs it and the loop goes on.
ValWriteFails ==
    /\ ValReady
    /\ LET info == Head(val_queue)
           txns == ValidationTxns(DbNow, info.video_hash, ValSegments, ValNow)
       IN /\ \E k \in 0..Len(txns) : SetDb(IF k = 0 THEN DbNow ELSE txns[k])
          /\ val_log' = Append(val_log, ValLogEntry(info, "write_failed", ValSegments))
    /\ val_queue' = Tail(val_queue)
    /\ UNCHANGED <<val_pc, validated, progress>>
    /\ ValFrame

\* The process dies in the loop, after k transactions of the item at hand.
ValCrash ==
    /\ val_pc = "loop"
    /\ IF ValReady
       THEN LET info == Head(val_queue)
                txns == ValidationTxns(DbNow, info.video_hash, ValSegments, ValNow)
            IN /\ \E k \in 0..Len(txns) : SetDb(IF k = 0 THEN DbNow ELSE txns[k])
               /\ val_log' = Append(val_log, ValLogEntry(info, "crashed", ValSegments))
       ELSE UNCHANGED <<db_vars, val_log>>
    /\ val_pc' = "crashed"
    /\ UNCHANGED <<val_queue, validated, progress>>
    /\ ValFrame

\* Lines 268-270
ValComplete ==
    /\ val_pc = "loop" /\ val_queue = << >>
    /\ val_pc' = "done"
    /\ UNCHANGED <<val_queue, validated, val_log, progress, db_vars>>
    /\ ValFrame

\* A MotionProcessor over a store that earlier runs have filled, some files
\* gone since, no rescan started yet.
ValInit ==
    /\ root = "/volume1"
    /\ disk \in SUBSET Files
    /\ analysis \in [Files -> Outcomes]
    /\ \E seeded \in SUBSET Files :
         /\ videos = SeededStore(seeded, root, analysis).videos
         /\ motion_segments = SeededStore(seeded, root, analysis).motion_segments
    /\ reanalysis \in [Files -> ValOutcomes]
    /\ rare \in SUBSET Files
    /\ val_pc = "idle"
    /\ val_queue = << >>
    /\ validated = {}
    /\ val_log = << >>
    /\ validation_model \in ValidationModels
    /\ now = 0
    /\ run_pc = "idle"
    /\ workers = 1
    /\ all_videos = << >>
    /\ videos_to_process = << >>
    /\ task_queue = << >>
    /\ busy = << >>
    /\ results = << >>
    /\ pool_created = FALSE
    /\ analyzed = << >>
    /\ persisted = {}
    /\ handled = {}
    /\ store_before = Store({}, {})
    /\ reconciled = FALSE
    /\ last_run = [catalog |-> {}, outstanding |-> {}, saved |-> {},
                   dispatched |-> FALSE, exit |-> "none"]
    /\ exit = "none"
    /\ progress_callback = TRUE
    /\ progress = << >>
    /\ worker_detector = << >>
    /\ constructed = 0

ValNext ==
    \/ \E order \in Orders(GetVideosForValidation(DbNow, rare)) : ValBegin(order)
    \/ ValSkipMissing
    \/ ValAnalysisFails
    \/ ValidateItem
    \/ ValWriteFails
    \/ ValCrash
    \/ ValComplete

ValidationInit == ValInit /\ DetParked /\ ViewParked /\ ScanParked

SpecValidation == ValidationInit /\ [][ValNext]_vars

(***************************************************************************)
(* Segments of a hash that is persisted again.                             *)
(***************************************************************************)
Validated(e) == e.outcome = "validated"

\* C11: a hash that had k segments stored and is persisted again with a
\* result of n segments (k > n, k = n, k < n, n = 0) has exactly the n new
\* segments stored afterwards, numbered from 1, and none of the k earlier
\* ones.
C11_ReplaceNotAppend ==
    \A i \in DOMAIN val_log :
        Validated(val_log[i]) =>
            /\ StoredSegments(DbNow, val_log[i].hash) = Numbered(val_log[i].segments)
            /\ StoredSegments(DbNow, val_log[i].hash) \cap val_log[i].before = {}
            /\ Cardinality(SegmentRowsOf(DbNow, val_log[i].hash)) = Len(val_log[i].segments)

\* A hash with a stored segment was persisted again with a result of none.
C11_Witness ==
    \E i \in DOMAIN val_log :
        /\ Validated(val_log[i])
        /\ val_log[i].before # {}
        /\ val_log[i].segments = << >>
        /\ SegmentRowsOf(DbNow, val_log[i].hash) = {}

\* The segment_index values stored under video_hash.
IndexesOf(db, video_hash) == { s.segment_index : s \in SegmentRowsOf(db, video_hash) }

\* C20: under every hash of the store the segment_index values are exactly
\* 1..n for n the number of its segment rows, also after the validation
\* rescan has replaced them.
C20_ContiguousIndex ==
    \A r \in videos :
        IndexesOf(DbNow, r.video_hash) =
            1..Cardinality(SegmentRowsOf(DbNow, r.video_hash))

\* The rescan is over and has stored two segments under a hash.
C20_Witness ==
    /\ val_pc = "done"
    /\ \E i \in DOMAIN val_log :
         /\ Validated(val_log[i])
         /\ Len(val_log[i].segments) = 2
         /\ IndexesOf(DbNow, val_log[i].hash) = {1, 2}

(***************************************************************************)
(* Records of earlier runs in a later run.                                 *)
(***************************************************************************)
\* The catalog items of the run whose path has a processed row in the store
\* as the run found it: the items _save_results has a record of.
RecordedBefore ==
    { v \in Range(all_videos) :
        \E r \in store_before.videos :
            r.video_path = v.path /\ r.processed_at # NULL_TIME }

\* C21: an item with a record written in an earlier run, with an error
\* outcome or without, whose path is in the catalog of a later run is not
\* among the outstanding videos of that run and the worker is not called on
\* it; its row is still the one the run found.  The same holds of the items
\* the run before has saved.
C21_NeverReprocessed ==
    /\ \A v \in RecordedBefore :
         /\ v \notin Range(videos_to_process)
         /\ v \notin Range(analyzed)
         /\ reconciled => RowsOf(DbNow, v.hash) = RowsOf(store_before, v.hash)
    /\ Scanned =>
         \A u \in last_run.saved :
            u \in Range(all_videos) => u \in RecordedBefore

\* The run before saved the error result of a file whose analysis raises;
\* this run, over a catalog with that file, has completed without it.
C21_Witness ==
    /\ run_pc = "idle" /\ exit \in {"complete", "nothing_to_do"}
    /\ \E u \in last_run.saved :
         /\ analysis[u.path[2]].raises
         /\ u \in Range(all_videos)
         /\ u \notin Range(analyzed)
         /\ \E r \in videos :
              r.video_hash = u.hash /\ r.error_message # NULL /\ r.processed_at < now

(***************************************************************************)
(* Exactly-once processing of the outstanding videos of a run.             *)
(***************************************************************************)
\* The run has ended by itself: it returned, or an exception of its own
\* code ended it (no crash of the process, no failing store write).
RunReturned == run_pc = "idle" /\ exit \in {"complete", "nothing_to_do", "TypeError"}

\* C22: in one run the outstanding videos are exactly the catalog items
\* whose hash has no processed row in the store (as reconciliation left it);
\* the worker is called on no other item and on none twice; and when the run
\* has ended by itself it was called on every outstanding item and the
\* result of each was persisted, once.
C22_ExactlyOnce ==
    /\ Dispatched =>
         Range(videos_to_process) =
            { v \in Range(all_videos) : ~IsProcessed(CleanedStore, v.hash) }
    /\ Range(analyzed) \subseteq Range(videos_to_process)
    /\ \A i, j \in DOMAIN analyzed : i # j => analyzed[i] # analyzed[j]
    /\ RunReturned =>
         /\ Range(analyzed) = Range(videos_to_process)
         /\ { res.video : res \in persisted } = Range(videos_to_process)
         /\ Cardinality(persisted) = Len(videos_to_process)
         /\ \A v \in Range(videos_to_process) :
              Cardinality({ r \in videos : r.video_hash = v.hash /\ r.processed_at = now }) = 1

(***************************************************************************)
(* The validation rescan, item by item.                                    *)
(***************************************************************************)
RowOf(video_hash) == CHOOSE r \in videos : r.video_hash = video_hash

\* The rows the rescan selects from the store it starts on: the processed
\* rows of rare files that have segments stored.
SelectedRows ==
    { r \in videos :
        /\ r.processed_at # NULL_TIME
        /\ r.video_path[2] \in rare
        /\ analysis[r.video_path[2]].n > 0 }

MarkOf(video_hash) == [video_hash |-> video_hash, model |-> validation_model]

\* The step visits a row whose file is missing.
MissingStep ==
    /\ Len(val_log') = Len(val_log) + 1
    /\ val_log'[Len(val_log')].outcome = "missing"

\* C23: the rescan visits the selected rows one after the other, each once,
\* and when it is done it has visited them all.  A visited row whose file
\* exists and whose re-analysis returns (and whose writes were not cut short
\* by a failing store or a dying process) has exactly the segments of the
\* re-analysis stored under its hash, numbered from 1, and the validation
\* mark of the model of the rescan.  A row whose file is missing is skipped:
\* the step changes neither rows nor segments nor marks, and its segments
\* are still those found when it was visited.  No videos row is ever changed.
C23_ValidationRescan ==
    /\ [](/\ \A i \in DOMAIN val_log :
               LET e == val_log[i]
                   r == RowOf(e.hash)
                   rel == r.video_path[2]
                   present == r.video_path[1] = root /\ rel \in disk
               IN /\ r \in SelectedRows /\ e.before # {}
                  /\ \A j \in DOMAIN val_log : j # i => val_log[j].hash # e.hash
                  /\ ~present =>
                        /\ e.outcome = "missing"
                        /\ StoredSegments(DbNow, e.hash) = e.before
                        /\ MarkOf(e.hash) \notin validated
                  /\ (present /\ ~reanalysis[rel].raises
                              /\ e.outcome \notin {"write_failed", "crashed"}) =>
                        /\ e.outcome = "validated"
                        /\ e.segments = ValidationSegmentsOf(rel, reanalysis[rel].n)
                        /\ StoredSegments(DbNow, e.hash) = Numbered(e.segments)
                        /\ MarkOf(e.hash) \in validated
          /\ \A m \in validated :
               /\ m.model = validation_model
               /\ \E i \in DOMAIN val_log :
                    Validated(val_log[i]) /\ val_log[i].hash = m.video_hash
          /\ val_pc = "done" =>
               { val_log[i].hash : i \in DOMAIN val_log } =
                   { r.video_hash : r \in SelectedRows })
    /\ [][/\ videos' = videos
          /\ MissingStep => motion_segments' = motion_segments /\ validated' = validated]_vars

\* The rescan with another model than the default is done: one row was
\* re-analyzed into two segments and marked, the other row's file is gone
\* and its segment is still stored.
C23_Witness ==
    /\ val_pc = "done"
    /\ validation_model = "yolov8l.pt"
    /\ \E i, j \in DOMAIN val_log :
         /\ Validated(val_log[i])
         /\ Len(val_log[i].segments) = 2
         /\ MarkOf(val_log[i].hash) \in validated
         /\ val_log[j].outcome = "missing"
         /\ StoredSegments(DbNow, val_log[j].hash) # {}

(***************************************************************************)
(* A stat failure during the scan.                                         *)
(***************************************************************************)
\* stat() of the path returns.
Readable(path) == path[2] \notin unreadable

\* The entries of found visited so far that could be stat-ed, in order.
StatedSoFar == SelectSeq(SubSeq(found, 1, scan_i), Readable)

Sampled(i) == i % sample_every = 0

\* The area is at or above the effective min-area threshold.
Above(area) == area >= GetAdaptiveMinArea(brightness)

\* The number of sampled frames among the first n that follow the last
\* sampled frame with motion.
RECURSIVE QuietSince(_)
QuietSince(n) ==
    IF n = 0 THEN 0
    ELSE IF ~Sampled(n) THEN QuietSince(n - 1)
    ELSE IF Above(areas[n]) THEN 0
    ELSE 1 + QuietSince(n - 1)

\* The loop reads a frame while a segment is open.
GraceLawStep ==
    (det_pc = "loop" /\ frame_idx' = frame_idx + 1 /\ current_segment # None) =>
        IF ~Sampled(frame_idx')
        THEN current_segment' = current_segment /\ segments' = segments
        ELSE IF Above(areas'[frame_idx'])
        THEN /\ current_segment' # None
             /\ current_segment'.grace_counter = 0
             /\ current_segment'.start_time = current_segment.start_time
             /\ segments' = segments
        ELSE IF current_segment.grace_counter + 1 < end_grace_frames
        THEN /\ current_segment' # None
             /\ current_segment'.grace_counter = current_segment.grace_counter + 1
             /\ current_segment'.start_time = current_segment.start_time
             /\ segments' = segments
        ELSE /\ current_segment.grace_counter + 1 = end_grace_frames
             /\ current_segment' = None
             /\ IF frame_idx' - current_segment.start_time < min_segment_duration
                THEN segments' = segments
                ELSE /\ Len(segments') = Len(segments) + 1
                     /\ Spans(segments'[Len(segments')], current_segment.start_time, frame_idx')

\* C25: while a segment is open its grace counter is the number of
\* consecutive sub-threshold sampled frames seen last, below
\* end_grace_frames: a sub-threshold sampled frame adds one, a frame with
\* motion resets it to 0, a frame that is not sampled leaves it.  The sampled
\* frame that takes it to end_grace_frames closes the segment with that
\* frame's timestamp as end time (emitted unless shorter than the minimum
\* duration), and no segment is open afterwards.
C25_GraceCounter ==
    /\ [](current_segment # None =>
            /\ current_segment.grace_counter = QuietSince(frame_idx)
            /\ current_segment.grace_counter < end_grace_frames)
    /\ [][GraceLawStep]_vars

\* Two quiet frames, a frame with motion, then five quiet frames: the
\* segment opened at frame 1 was closed at frame 9, the fifth of them.
C25_Witness ==
    /\ det_pc = "loop"
    /\ end_grace_frames = 5 /\ sample_every = 1 /\ min_segment_duration = 1
    /\ areas = <<A, 0, 0, A, 0, 0, 0, 0, 0>>
    /\ current_segment = None
    /\ Len(segments) = 1 /\ Spans(segments[1], 1, 9)

(***************************************************************************)
(* The flush at the end of the stream.                                     *)
(***************************************************************************)
\* The last frame the loop has sampled (0: none).
LastSampled == frame_idx - (frame_idx % sample_every)

\* cap.read() fails while a segment is open.
FlushStep == det_pc = "loop" /\ det_pc' = "done" /\ current_segment # None

\* C26: the flush at the end of the stream closes the open segment with the
\* timestamp of the last sampled frame as end time, whatever
\* sample_every_n_frames and the length of the stream: it is emitted with
\* that end time, or dropped when that makes it shorter than the minimum
\* duration, and no segment is open afterwards.
C26_FlushAtLastSample ==
    [][FlushStep =>
         /\ current_segment' = None
         /\ IF LastSampled - current_segment.start_time < min_segment_duration
            THEN segments' = segments
            ELSE /\ Len(segments') = Len(segments) + 1
                 /\ Spans(segments'[Len(segments')], current_segment.start_time,
                          LastSampled)]_vars

(***************************************************************************)
(* Preview frames.                                                         *)
(***************************************************************************)
\* The sampled frames with motion among frames first..last, in order.
MotionFrames(first, last) ==
    SelectSeq([i \in 1..(last - first + 1) |-> first + i - 1],
              LAMBDA f : Sampled(f) /\ Above(areas[f]))

\* The first n elements of s, all of them when it has fewer.
FirstN(s, n) == SubSeq(s, 1, IF Len(s) < n THEN Len(s) ELSE n)

Increasing(s) == \A i, j \in DOMAIN s : i < j => s[i] < s[j]

\* C27: the open segment holds between 1 and 5 preview frame indices: the
\* frame that opened it and after it the next sampled frames with motion,
\* in increasing order, up to five in all.  Every emitted segment carries at
\* most 5 preview frames, in increasing order, each a sampled frame with
\* motion between its start and its end.
C27_PreviewFrames ==
    /\ current_segment # None =>
         LET p == current_segment.preview_frames
         IN /\ 1 <= Len(p) /\ Len(p) <= MaxPreviewFrames
            /\ p[1] = current_segment.start_frame
            /\ Increasing(p)
            /\ p = FirstN(MotionFrames(current_segment.start_frame, frame_idx),
                          MaxPreviewFrames)
    /\ \A k \in DOMAIN segments :
         LET p == segments[k].preview_frames
         IN /\ Len(p) <= MaxPreviewFrames
            /\ Increasing(p)
            /\ \A i \in DOMAIN p :
                 /\ segments[k].start_time <= p[i] /\ p[i] <= segments[k].end_time
                 /\ Sampled(p[i]) /\ Above(areas[p[i]])

\* Six frames with motion in a row: the open segment holds the first five.
C27_Witness ==
    /\ det_pc = "loop" /\ sample_every = 1
    /\ areas = <<A, A, A, A, A, A>>
    /\ current_segment # None
    /\ current_segment.preview_frames = <<1, 2, 3, 4, 5>>

(***************************************************************************)
(* The peak area of a segment: analyze_video on short videos whose frames  *)
(* show different areas, below and above the threshold, with a grace       *)
(* period short enough to close segments inside them.                      *)
(***************************************************************************)
MaxPeakFrames == 6
PeakAreaChoices == {0, min_motion_area, 1000, ScaledMinArea}
PeakBrightLevels == {DarkCutoff - 1, 80}

PeakInit ==
    /\ end_grace_frames = 2
    /\ min_segment_duration = 1
    /\ sample_every \in SampleChoices
    /\ brightness \in PeakBrightLevels
    /\ areas = << >>
    /\ frame_idx = 0
    /\ current_segment = None
    /\ segments = << >>
    /\ det_pc = "loop"

PeakSkipFrame == frame_idx < MaxPeakFrames /\ SkipFrame

PeakSampleFrame(max_area) == frame_idx < MaxPeakFrames /\ SampleFrame(max_area)

PeakNext ==
    \/ PeakSkipFrame
    \/ \E a \in PeakAreaChoices : PeakSampleFrame(a)
    \/ EndOfStream

PeakAreaInit == PeakInit /\ RunParked /\ ViewParked /\ ValParked /\ ScanParked

SpecPeak == PeakAreaInit /\ [][PeakNext]_vars

\* The largest element of a non-empty set of numbers.
SetMax(S) == CHOOSE x \in S : \A y \in S : y <= x

\* The largest area among the sampled frames first..last.
PeakOver(first, last) ==
    SetMax({ areas[i] : i \in { j \in first..last : Sampled(j) } })

\* C28: the max_motion_area of every emitted segment is the largest area
\* among the sampled frames from the frame that opened it to the frame that
\* closed it (the last frame read, when the end of the stream closed it),
\* and is at least the effective min-area threshold.  The same holds of the
\* open segment up to the frame at hand.
C28_PeakArea ==
    /\ \A k \in DOMAIN segments :
         /\ segments[k].max_motion_area =
                PeakOver(segments[k].start_time, segments[k].end_time)
         /\ segments[k].max_motion_area >= GetAdaptiveMinArea(brightness)
    /\ current_segment # None =>
         /\ current_segment.max_area = PeakOver(current_segment.start_frame, frame_idx)
         /\ current_segment.max_area >= GetAdaptiveMinArea(brightness)

\* Areas 800, 1200, 1000 and two frames without motion: the grace counter
\* has closed the segment, its peak is 1200.
C28_Witness ==
    /\ det_pc = "loop" /\ sample_every = 1 /\ brightness = 80
    /\ areas = <<min_motion_area, ScaledMinArea, 1000, 0, 0>>
    /\ Len(segments) = 1
    /\ Spans(segments[1], 1, 5)
    /\ segments[1].max_motion_area = ScaledMinArea

(***************************************************************************)
(* The detectors of the pool.                                              *)
(***************************************************************************)
\* Pool worker i hands its result to the orchestrator.
WorkerDelivers(i) ==
    /\ i \in DOMAIN busy /\ i \in DOMAIN busy'
    /\ busy[i] # None /\ busy'[i] = None
    /\ Len(results') = Len(results) + 1

\* C29: while the pool of a run with W workers lives, every worker holds a
\* detector of its own, set by init_worker in its process, and W detectors
\* have been constructed for the run; W is still the count when the run is
\* over, however many items there were.  A worker's result is the one its
\* own detector gives for the item it took, never the AttributeError of an
\* unset detector, and neither taking nor analyzing nor saving an item
\* constructs a detector or changes the detector of a worker.
C29_DetectorPerWorker ==
    /\ [](/\ run_pc = "parallel" =>
               /\ DOMAIN worker_detector = 1..workers
               /\ \A i \in 1..workers :
                    /\ worker_detector[i] # None
                    /\ worker_detector[i].worker = i
                    /\ \A j \in 1..workers :
                         j # i => worker_detector[j] # worker_detector[i]
          /\ pool_created => constructed = workers
          /\ workers > 1 => \A res \in Delivered : res.error # "AttributeError")
    /\ [][(run_pc = "parallel" /\ run_pc' = "parallel") =>
            /\ worker_detector' = worker_detector
            /\ constructed' = constructed
            /\ \A i \in 1..workers :
                 WorkerDelivers(i) =>
                    /\ results'[Len(results')].video = busy[i]
                    /\ results'[Len(results')].error =
                          IF analysis[busy[i].path[2]].raises THEN "ValueError" ELSE NULL]_vars

\* A pooled run with two workers has completed two items: two detectors
\* were constructed, and the errors it saved are those of the analysis.
C29_Witness ==
    /\ run_pc = "idle" /\ exit = "complete"
    /\ workers = 2 /\ pool_created
    /\ Len(analyzed) = 2
    /\ constructed = 2
    /\ \A res \in handled : res.error = "ValueError"

(***************************************************************************)
(* Who writes the store during a run.                                      *)
(***************************************************************************)
\* The rows and segments of db under other hashes than video_hash.
OtherThan(db, video_hash) ==
    Store({ r \in db.videos : r.video_hash # video_hash },
          { m \in db.motion_segments : m.video_hash # video_hash })

\* A worker takes an item or returns the result of one.
WorkerStep == analyzed' # analyzed \/ Len(results') > Len(results)

\* C30: a step in which a worker takes an item or delivers its result
\* leaves the store as it is.  Every step of a run that changes the store is
\* either the deletion reconciliation, which only removes rows, or a write of
\* _save_results for the oldest result collected and not yet saved: it
\* touches the rows and segments of that one item only, and no worker acts
\* in the same step.
C30_OnlyOrchestratorWrites ==
    [][/\ WorkerStep => DbNow' = DbNow
       /\ DbNow' # DbNow =>
            \/ /\ run_pc = "scanned" /\ run_pc' = "cleaned"
               /\ videos' \subseteq videos
               /\ motion_segments' \subseteq motion_segments
            \/ /\ run_pc \in {"parallel", "sequential"}
               /\ results # << >>
               /\ OtherThan(DbNow', Head(results).video.hash) =
                      OtherThan(DbNow, Head(results).video.hash)
               /\ ~WorkerStep]_vars

\* Two items were analyzed in the pool; the result of one is saved, the
\* result of the other is collected and waits: the store holds the row of
\* the first only.
C30_Witness ==
    /\ run_pc = "parallel"
    /\ Len(analyzed) = 2
    /\ Cardinality(persisted) = 1
    /\ Len(results) = 1
    /\ Cardinality(RowsOfThisRun) = 1
    /\ ~IsProcessed(DbNow, results[1].video.hash)

(***************************************************************************)
(* Segments without a record.                                              *)
(***************************************************************************)
\* Every motion_segments row of db references a videos row of db.
NoOrphans(db) == \A s \in db.motion_segments : RowsOf(db, s.video_hash) # {}

\* C31: no store state holds a segment whose hash has no videos row.  The
\* one transaction of cleanup_deleted_videos, for whatever set of existing
\* paths, removes with every row it deletes all the segments of that row's
\* hash and leaves the other rows with their segments; the one transaction
\* of mark_processed that replaces the row of a hash removes all the segments
\* stored under it.
C31_NoOrphanSegments ==
    /\ NoOrphans(DbNow)
    /\ \A existing \in SUBSET { r.video_path : r \in videos } :
         LET after == CleanupDeletedVideos(DbNow, existing)
         IN /\ NoOrphans(after)
            /\ \A r \in videos :
                 IF r.video_path \in existing
                 THEN /\ r \in after.videos
                      /\ SegmentRowsOf(after, r.video_hash) = SegmentRowsOf(DbNow, r.video_hash)
                 ELSE /\ RowsOf(after, r.video_hash) = {}
                      /\ SegmentRowsOf(after, r.video_hash) = {}
    /\ \A r \in videos :
         LET after == MarkProcessed(DbNow, r.video_hash, r.video_path, 0, FALSE,
                                    "ValueError", now + 1)
         IN /\ NoOrphans(after)
            /\ Cardinality(RowsOf(after, r.video_hash)) = 1
            /\ SegmentRowsOf(after, r.video_hash) = {}

\* The reconciliation of the run has deleted the row of a file that had a
\* segment stored, and the segment with it; the segment of a file that is
\* still there is kept.
C31_Witness ==
    /\ reconciled
    /\ \E r \in store_before.videos :
         /\ SegmentRowsOf(store_before, r.video_hash) # {}
         /\ RowsOf(DbNow, r.video_hash) = {}
         /\ SegmentRowsOf(DbNow, r.video_hash) = {}
    /\ motion_segments # {}

(***************************************************************************)
(* The run that finds nothing to do.                                       *)
(***************************************************************************)
CatalogPaths == { v.path : v \in Range(all_videos) }

\* run_scan has returned at line 65.
NoOpExit == run_pc = "idle" /\ exit = "nothing_to_do"

\* C32: the outstanding videos of a run are computed, and the run returns,
\* only after cleanup_deleted_videos has run.  A run that finds no
\* outstanding video has left the store exactly as the reconciliation
\* leaves the store it found: no row and no segment of a stored path outside
\* the catalog is left, every other row and segment is; it has called the
\* worker on nothing, has created no pool and no detector, has saved
\* nothing, has reported no item, and has not reached the statistics of
\* lines 77-85 (its exit is the return of line 65).
C32_ReconcileBeforeNoOp ==
    /\ (Dispatched /\ exit # "none") => reconciled
    /\ (videos_to_process # << >> \/ analyzed # << >>) => reconciled
    /\ run_pc \in {"cleaned", "parallel", "sequential"} => reconciled
    /\ NoOpExit =>
         /\ reconciled
         /\ DbNow = CleanedStore
         /\ \A r \in store_before.videos :
              IF r.video_path \in CatalogPaths
              THEN /\ r \in videos
                   /\ SegmentRowsOf(DbNow, r.video_hash) =
                          SegmentRowsOf(store_before, r.video_hash)
              ELSE /\ r \notin videos
                   /\ \A q \in videos : q.video_path # r.video_path
                   /\ SegmentRowsOf(DbNow, r.video_hash) = {}
         /\ videos_to_process = << >>
         /\ analyzed = << >> /\ handled = {} /\ persisted = {}
         /\ ~pool_created /\ constructed = 0
         /\ ItemEvents = << >>

\* A run over a catalog with one processed file has returned with nothing
\* to do; the row and the segment of a file that is gone were removed.
C32_Witness ==
    /\ NoOpExit
    /\ all_videos # << >>
    /\ \E r \in store_before.videos :
         /\ r.video_path \notin CatalogPaths
         /\ SegmentRowsOf(store_before, r.video_hash) # {}
         /\ r \notin videos
         /\ SegmentRowsOf(DbNow, r.video_hash) = {}

(***************************************************************************)
(* The replacement of segments in the validation rescan, cut short.        *)
(***************************************************************************)
\* The visit of the row did not complete: the re-analysis raised, a store
\* write failed, or the process died in it.
CutShort(e) == e.outcome \in {"failed", "write_failed", "crashed"}

\* C33: the segments stored under the hash of a visited row are either all
\* those stored before the visit or all those of the re-analysis, never
\* fewer and never a mixture; and when the visit was cut short, by a failed
\* re-analysis, a failed store write or the death of the process, they are
\* those stored before.
C33_AtomicReplacement ==
    \A i \in DOMAIN val_log :
        LET e == val_log[i]
            stored == StoredSegments(DbNow, e.hash)
        IN /\ stored = e.before \/ stored = Numbered(e.segments)
           /\ CutShort(e) => stored = e.before

(***************************************************************************)
(* Idle and active: the segments of one video, one after the other.        *)
(***************************************************************************)
\* Frame f has been read, was sampled and showed motion.
OpensAt(f) == f \in 1..frame_idx /\ Sampled(f) /\ Above(areas[f])

\* C34: analyze_video starts with no segment open and none emitted; at any
\* time it holds no open segment or one, whose start is a sampled frame with
\* motion, later than the end of every segment emitted before.  The emitted
\* segments each start at a sampled frame with motion and end no earlier,
\* and each starts later than the one before it ends.
C34_OneOpenSegment ==
    /\ frame_idx = 0 => current_segment = None /\ segments = << >>
    /\ current_segment # None =>
         /\ DOMAIN current_segment =
                {"start_frame", "start_time", "max_area", "preview_frames", "grace_counter"}
         /\ current_segment.start_time = current_segment.start_frame
         /\ OpensAt(current_segment.start_frame)
         /\ det_pc = "loop"
         /\ \A k \in DOMAIN segments :
              segments[k].end_time < current_segment.start_time
    /\ \A k \in DOMAIN segments :
         /\ OpensAt(segments[k].start_time)
         /\ segments[k].start_time <= segments[k].end_time
         /\ segments[k].end_time <= frame_idx
         /\ k > 1 => segments[k].start_time > segments[k - 1].end_time

\* Two frames with motion, five quiet frames that close the segment at
\* frame 7, and motion again from frame 8 to the end of the stream: the
\* second segment starts right after the first has ended.
C34_Witness ==
    /\ det_pc = "done"
    /\ end_grace_frames = 5 /\ sample_every = 1 /\ min_segment_duration = 1
    /\ areas = <<A, A, 0, 0, 0, 0, 0, A, A>>
    /\ Len(segments) = 2
    /\ Spans(segments[1], 1, 7) /\ Spans(segments[2], 8, 9)

(***************************************************************************)
(* The run-state flag when a run ends.  The thread that runs the processor *)
(* is started with the flag set (lines 935-936, 987-989, 1041-1045) and    *)
(* the processor works through a finite catalog: every run that has        *)
(* started ends, which is the fairness assumed of RunEnds and AutoEnds.    *)
(***************************************************************************)
ViewerFairness ==
    /\ \A t \in Threads : WF_vars(RunEnds(t))
    /\ WF_vars(AutoEnds)

SpecViewerLive == ViewerInit /\ [][ViewerNext]_vars /\ ViewerFairness

\* The step ends a run: a thread leaves the processor.
RunEndStep == active_runs' # active_runs /\ active_runs' \subseteq active_runs

\* Request thread t reads the flag.
FlagReadBy(t) == handler[t].pc = "none" /\ handler'[t].pc # "none"

\* C35: the flag is never true with no run active; the step that ends a
\* run, by a return, by the early return of an empty selection or by an
\* exception, leaves the flag false; a request that reads the flag is
\* accepted exactly when it reads false, and the auto-scan that wakes up
\* goes on exactly then; and whenever the flag is true it is false again
\* later, so that a request made then is accepted.
C35_FlagReset ==
    /\ [](rebuild_running => active_runs # {})
    /\ [][/\ RunEndStep => ~rebuild_running'
          /\ \A t \in Threads :
               FlagReadBy(t) => (handler'[t].pc = "checked" <=> ~rebuild_running)
          /\ (auto_pc = "sleep" /\ auto_pc' # "sleep") => ~rebuild_running]_vars
    /\ (rebuild_running ~> ~rebuild_running)

\* The run of the first request has raised; the flag is false, no run is
\* active, and the second request has read the flag and is accepted.
C35_Witness ==
    /\ handler[1].pc = "failed"
    /\ handler[2].pc = "checked"
    /\ ~rebuild_running
    /\ active_runs = {}

(***************************************************************************)
(* has_motion and the segments stored.                                     *)
(***************************************************************************)
\* The persistence of the row's item was cut short in the rescan.
LeftHalfWritten(r) ==
    \E i \in DOMAIN val_log : val_log[i].hash = r.video_hash /\ CutShort(val_log[i])

\* C36: every videos row whose persistence has completed, by _save_results
\* or by the validation rescan, has has_motion true exactly when a segment
\* is stored under its hash; so has the row of an item the rescan has
\* re-analyzed into no segment, or into some.
C36_HasMotionConsistent ==
    \A r \in videos :
        (r.processed_at # NULL_TIME /\ ~LeftHalfWritten(r)) =>
            r.has_motion = (SegmentRowsOf(DbNow, r.video_hash) # {})

(***************************************************************************)
(* run_scan over a tree some of whose files cannot be stat-ed at the time  *)
(* of one scan and can at the time of another.  The files stay on disk and *)
(* the root stays where it is.                                             *)
(***************************************************************************)
StatFrame == UNCHANGED <<tree, found, scan_i, scan_videos, scan_pc, det_vars, env_vars,
                         db_vars, run_vars, view_vars, val_vars>>

\* From now on stat() of the file raises (scanner.py line 37).
StatFails(rel) ==
    /\ run_pc = "idle" /\ now < MaxRuns
    /\ rel \in disk \ unreadable
    /\ unreadable' = unreadable \cup {rel}
    /\ StatFrame

\* From now on stat() of the file returns again.
StatRecovers(rel) ==
    /\ run_pc = "idle" /\ now < MaxRuns
    /\ rel \in unreadable
    /\ unreadable' = unreadable \ {rel}
    /\ StatFrame

StatRunInit == RunInit /\ DetParked /\ ViewParked /\ ValParked /\ ScanParked

StatRunNext ==
    \/ \E rel \in Files : StatFails(rel)
    \/ \E rel \in Files : StatRecovers(rel)
    \/ \E w \in WorkerChoices,
          order \in Orders(ScanAllVideos(root, Statable(disk, unreadable))) :
         BeginScan(w, order)
    \/ Cleanup
    \/ Dispatch
    \/ \E i \in DOMAIN busy : WorkerTake(i)
    \/ \E i \in DOMAIN busy : WorkerFinish(i)
    \/ SequentialWork
    \/ SaveResult
    \/ Complete

SpecStatRun == StatRunInit /\ [][StatRunNext]_vars

\* The files on disk that the scan of the run could not stat.  The stat
\* failures change between runs only, so during a run they are those of
\* its scan.
Hidden == { rel \in disk : AbsPath(root, rel) \notin CatalogPaths }

\* The catalog items of this run that the run before did not have.
BackInCatalog == { v \in Range(all_videos) : last_run.dispatched /\ v \notin last_run.catalog }

MaxStoreOps == 3                \* calls of the DatabaseManager in one behaviour
StoreHashes == { Sha256Hex16(rel) : rel \in Files }
StorePaths == { AbsPath("/volume1", rel) : rel \in Files }

StoreFrame == UNCHANGED <<det_vars, env_vars, view_vars, val_vars, scan_vars, run_pc,
                          workers, all_videos, videos_to_process, task_queue, busy,
                          results, pool_created, analyzed, persisted, handled,
                          reconciled, last_run, exit, progress_callback, progress,
                          worker_detector, constructed>>

\* mark_processed, lines 99-112
StoreMarkProcessed(video_hash, video_path, has_motion) ==
    /\ now < MaxStoreOps
    /\ SetDb(MarkProcessed(DbNow, video_hash, video_path, 1, has_motion, NULL, now + 1))
    /\ now' = now + 1
    /\ store_before' = DbNow
    /\ StoreFrame

\* add_motion_segment, lines 114-127.  The foreign key of line 52 rejects a
\* video_hash without a videos row: the transaction is rolled back and the
\* store stays as it is.
StoreAddMotionSegment(video_hash, segment_index) ==
    /\ now < MaxStoreOps
    /\ SetDb(IF RowsOf(DbNow, video_hash) = {}
             THEN DbNow
             ELSE AddMotionSegment(DbNow, video_hash, segment_index,
                                   [file |-> video_hash[2], k |-> segment_index], now + 1))
    /\ now' = now + 1
    /\ store_before' = DbNow
    /\ StoreFrame

\* cleanup_deleted_videos, lines 129-146
StoreCleanup(existing_video_paths) ==
    /\ now < MaxStoreOps
    /\ SetDb(CleanupDeletedVideos(DbNow, existing_video_paths))
    /\ now' = now + 1
    /\ store_before' = DbNow
    /\ StoreFrame

StoreInit == RunParked /\ DetParked /\ ViewParked /\ ValParked /\ ScanParked

StoreNext ==
    \/ \E video_hash \in StoreHashes, video_path \in StorePaths, has_motion \in BOOLEAN :
         StoreMarkProcessed(video_hash, video_path, has_motion)
    \/ \E video_hash \in StoreHashes, segment_index \in 1..MaxSegs :
         StoreAddMotionSegment(video_hash, segment_index)
    \/ \E existing_video_paths \in SUBSET StorePaths : StoreCleanup(existing_video_paths)

SpecStore == StoreInit /\ [][StoreNext]_vars

OneRowPerPath(db) ==
    \A r, q \in db.videos : r.video_path = q.video_path => r = q

\* The rows of the store before the last call that stand in the way of row
\* r: the same video_path under another video_hash.
SamePathOtherHash(r) ==
    { q \in store_before.videos :
        q.video_path = r.video_path /\ q.video_hash # r.video_hash }

\* C38: no store state holds two videos rows with the same video_path.  When
\* a call has written a row whose path the store held under another hash,
\* that other row is gone and no segment is left under its hash; the row
\* written is the only one of its path (and of its hash).
C38_OneRecordPerPath ==
    /\ OneRowPerPath(DbNow)
    /\ \A r \in videos \ store_before.videos :
         /\ { x \in videos : x.video_path = r.video_path } = {r}
         /\ RowsOf(DbNow, r.video_hash) = {r}
         /\ \A q \in SamePathOtherHash(r) :
              /\ q \notin videos
              /\ RowsOf(DbNow, q.video_hash) = {}
              /\ SegmentRowsOf(DbNow, q.video_hash) = {}

\* A row was written for the path of a row of another hash that had a
\* segment: the other row and its segment are gone.
C38_Witness ==
    \E r \in videos \ store_before.videos :
        \E q \in SamePathOtherHash(r) :
            /\ SegmentRowsOf(store_before, q.video_hash) # {}
            /\ q \notin videos
            /\ SegmentRowsOf(DbNow, q.video_hash) = {}
            /\ Cardinality(videos) = 1

====
